---- MODULE Spec2Model ----
(***************************************************************************)
(* Model of the cloudflare-operator reconciliation core:                   *)
(*   - CloudflareClientProvider (src/src/cloudflare/mod.rs): hierarchical  *)
(*     token resolution, secret fetch, and the token -> client cache;      *)
(*   - Zone reconcile engine (src/src/zone/reconcile.rs);                  *)
(*   - DNSRecord reconcile engine (src/src/dns_record/reconcile.rs);       *)
(*   - run() joining the loops of the kinds (src/src/lib.rs).              *)
(* Option<T> values are modelled as sets with at most one element.         *)
(* Strings that are decoded from bytes (tokens) are sequences of Unicode   *)
(* code points; secret values are sequences of bytes.                      *)
(***************************************************************************)
EXTENDS Integers, Sequences, FiniteSets, TLC

\* ------------------------------------------------------------------ bounds
NumCallers == 2
MaxCalls == 3
MaxZones == 1

\* --------------------------------------------------------------- universe
Namespaces == {"ns1", "ns2"}
Kinds == {"Account", "Zone", "DNSRecord"}
Callers == 1..NumCallers

\* CLOUDFLARE_API_TOKEN handed to every Context ("D")
default_token == <<68>>

None == {}
Some(x) == {x}
Unwrap(o) == CHOOSE x \in o : TRUE

SecretSel(n, k) == [name |-> n, key |-> k]

\* ------------------------------------------------------------------ UTF-8
\* String::from_utf8: strict UTF-8 validation and decoding of a byte vector.
RECURSIVE Utf8From(_, _)
Utf8From(b, i) ==
  IF i > Len(b) THEN [valid |-> TRUE, cps |-> <<>>]
  ELSE
    LET x == b[i]
        Cont(j, lo, hi) == j <= Len(b) /\ b[j] >= lo /\ b[j] <= hi
        Push(n, cp) ==
          LET r == Utf8From(b, i + n)
          IN  IF r.valid THEN [valid |-> TRUE, cps |-> <<cp>> \o r.cps]
              ELSE [valid |-> FALSE, cps |-> <<>>]
        Bad == [valid |-> FALSE, cps |-> <<>>]
        lo2 == IF x = 224 THEN 160 ELSE IF x = 240 THEN 144 ELSE 128
        hi2 == IF x = 237 THEN 159 ELSE IF x = 244 THEN 143 ELSE 191
    IN  IF x < 128 THEN Push(1, x)
        ELSE IF x >= 194 /\ x <= 223 THEN
          IF Cont(i + 1, 128, 191)
          THEN Push(2, (x - 192) * 64 + (b[i + 1] - 128))
          ELSE Bad
        ELSE IF x >= 224 /\ x <= 239 THEN
          IF Cont(i + 1, lo2, hi2) /\ Cont(i + 2, 128, 191)
          THEN Push(3, (x - 224) * 4096 + (b[i + 1] - 128) * 64 + (b[i + 2] - 128))
          ELSE Bad
        ELSE IF x >= 240 /\ x <= 244 THEN
          IF Cont(i + 1, lo2, hi2) /\ Cont(i + 2, 128, 191) /\ Cont(i + 3, 128, 191)
          THEN Push(4, (x - 240) * 262144 + (b[i + 1] - 128) * 4096
                       + (b[i + 2] - 128) * 64 + (b[i + 3] - 128))
          ELSE Bad
        ELSE Bad

from_utf8(b) == Utf8From(b, 1)

\* --------------------------------------------------------------- results
Ok(v) == [ok |-> TRUE, val |-> v, err |-> "", arg |-> ""]
Err(e, a) == [ok |-> FALSE, val |-> <<>>, err |-> e, arg |-> a]
NoResult == [ok |-> FALSE, val |-> <<>>, err |-> "pending", arg |-> ""]

\* ------------------------------------------------------- cluster objects
\* Secret: data is Option<map key -> bytes>
SecretWith(k, bytes) == [data |-> Some(k :> bytes)]
SecretNoData == [data |-> None]

SecretVariants ==
  { SecretWith("token", <<84>>),          \* "T"
    SecretWith("token", <<195, 40>>),     \* not UTF-8
    SecretWith("other", <<84>>),          \* referenced key absent
    SecretNoData }

SecretSlots == { <<"ns1", "s1">>, <<"ns2", "s1">> }
\* the secret users rewrite while the operator runs
EditableSlots == { <<"ns1", "s1">> }

\* AccountSpec { id, secret_ref }
AccountSpecs ==
  ( <<"ns1", "a1">> :> [id |-> "acc1", secret_ref |-> Some(SecretSel("s1", "token"))] ) @@
  ( <<"ns1", "a2">> :> [id |-> "acc2", secret_ref |-> None] )

\* ZoneSpec { account_ref, secret_ref }
ZoneSpecs ==
  ( <<"ns1", "z1">> :> [account_ref |-> Some("a1"), secret_ref |-> None] ) @@
  ( <<"ns1", "z2">> :> [account_ref |-> Some("a2"), secret_ref |-> Some(SecretSel("s1", "token"))] ) @@
  ( <<"ns1", "z3">> :> [account_ref |-> Some("a9"), secret_ref |-> None] ) @@
  ( <<"ns2", "z1">> :> [account_ref |-> None, secret_ref |-> Some(SecretSel("s1", "token"))] )

\* DNSRecordSpec { zone_ref, ... }
DNSRecordSpecs ==
  ( <<"ns1", "d2">> :> [zone_ref |-> "z2"] ) @@
  ( <<"ns1", "d3">> :> [zone_ref |-> "z9"] )

AccountKeys == DOMAIN AccountSpecs
ZoneKeys == DOMAIN ZoneSpecs
DNSRecordKeys == DOMAIN DNSRecordSpecs

\* ------------------------------------------------- trait CloudflareResource
\* The three capability getters of a resource, as resolve_token sees them.
\* an Account whose zone_ref getter names a Zone
AccountRefs_zone_scoped(a) == [secret_ref |-> a.secret_ref, zone_ref |-> Some("z1"), account_ref |-> None]
AccountRefs(a) == [secret_ref |-> a.secret_ref, zone_ref |-> None, account_ref |-> None]
\* a Zone whose zone_ref getter names a Zone
ZoneRefs_cyclic(z) == [secret_ref |-> z.secret_ref, zone_ref |-> Some("z1"), account_ref |-> z.account_ref]
ZoneRefs(z) == [secret_ref |-> z.secret_ref, zone_ref |-> None, account_ref |-> z.account_ref]
DNSRecordRefs(d) == [secret_ref |-> None, zone_ref |-> Some(d.zone_ref), account_ref |-> None]

NoRefs == [secret_ref |-> None, zone_ref |-> None, account_ref |-> None]

VARIABLES
  secrets,      \* API server: <<ns, name>> -> Option<Secret>
  cache,        \* per Context: provider.cache, set of (token, client) entries
  lock,         \* per Context: holder of the cache mutex (0 = free)
  call,         \* per caller: state of its get_client invocation
  ncalls,       \* number of get_client invocations started
  clients,      \* every CloudflareClient instance constructed so far
  returned,     \* every Ok handle handed back by get_client
  last,         \* what the step just taken handed back to a caller of get_client
  zmeta,        \* API server: Zone metadata (existence, finalizer, deletion timestamp)
  zstatus,      \* API server: Zone status subresource, Option<ZoneStatus>
  aready,       \* API server: Account status.ready
  rec,          \* Zone controller: state of the reconcile of each Zone
  cfCalls,      \* Cloudflare: every create-zone request received
  dspec,        \* API server: DNSRecord spec
  dmeta,        \* API server: DNSRecord metadata
  dstatus,      \* API server: DNSRecord status subresource, Option<DNSRecordStatus>
  drec,         \* DNSRecord controller: state of the reconcile of each DNSRecord
  dnsCalls,     \* Cloudflare: every create-dns-record request received
  loops,        \* run(): state of the future of each kind's loop inside select!
  shutdown,     \* the process received the shutdown signal
  faults        \* API requests of the controllers may fail

engVars == <<zmeta, zstatus, aready, rec, cfCalls>>
provVars == <<secrets, cache, lock, call, ncalls, clients, returned, last>>
dnsVars == <<dspec, dmeta, dstatus, drec, dnsCalls>>
opVars == <<loops, shutdown, faults>>

\* What a request of a controller to the API server can answer (TRUE = it
\* was served), and what a call to Cloudflare can return: failures happen
\* only while requests may fail.
Answers == IF faults THEN BOOLEAN ELSE {TRUE}
Outcomes(results) == { r \in results : faults \/ r.ok }

\* --------------------------------------------------- Kubernetes API reads
\* Api::<Secret>::namespaced(ns).get(name)
GetSecret(ns, name) ==
  IF <<ns, name>> \in DOMAIN secrets THEN secrets[<<ns, name>>] ELSE None

\* Api::<Zone>::namespaced(ns).get(name), seen through its capability getters
GetZone(ns, name) ==
  IF <<ns, name>> \in ZoneKeys /\ zmeta[<<ns, name>>].exists THEN Some(ZoneRefs(ZoneSpecs[<<ns, name>>])) ELSE None

\* Api::<Account>::namespaced(ns).get(name)
GetAccount(ns, name) ==
  IF <<ns, name>> \in AccountKeys THEN Some(AccountRefs(AccountSpecs[<<ns, name>>])) ELSE None

\* The resource handed to get_client by the loop of its kind.
ResourceRefs(kind, ns, name) ==
  IF kind = "Zone" THEN ZoneRefs(ZoneSpecs[<<ns, name>>])
  ELSE IF kind = "Account" THEN AccountRefs(AccountSpecs[<<ns, name>>])
  ELSE DNSRecordRefs(DNSRecordSpecs[<<ns, name>>])

ResourceKeys(kind) ==
  IF kind = "Zone" THEN ZoneKeys
  ELSE IF kind = "Account" THEN AccountKeys
  ELSE DNSRecordKeys

\* ------------------------------------------------ CloudflareClientProvider
\* fetch_secret reading whatever value the secret holds instead of the
\* value under the referenced key.
fetch_secret_any_key(secret_ref, namespace, apiOk) ==
  LET got == IF apiOk THEN GetSecret(namespace, secret_ref.name) ELSE None
  IN  IF got = None THEN Err("SecretNotFound", secret_ref.name)
      ELSE
        LET secret == Unwrap(got)
        IN  IF secret.data # None /\ DOMAIN Unwrap(secret.data) # {}
            THEN LET data == Unwrap(secret.data)
                     d == from_utf8(data[CHOOSE k \in DOMAIN data : TRUE])
                 IN  IF d.valid THEN Ok(d.cps) ELSE Err("TokenEncoding", "")
            ELSE Err("SecretKeyMissing", secret_ref.key)

\* fetch_secret decoding the bytes as String::from_utf8_lossy does
fetch_secret_lossy(secret_ref, namespace, apiOk) ==
  LET got == IF apiOk THEN GetSecret(namespace, secret_ref.name) ELSE None
  IN  IF got = None THEN Err("SecretNotFound", secret_ref.name)
      ELSE
        LET secret == Unwrap(got)
        IN  IF secret.data # None /\ secret_ref.key \in DOMAIN Unwrap(secret.data)
            THEN LET d == from_utf8(Unwrap(secret.data)[secret_ref.key])
                 IN  IF d.valid THEN Ok(d.cps) ELSE Ok(<<65533>>)
            ELSE Err("SecretKeyMissing", secret_ref.key)

\* fetch_secret falling back to the default token when the lookup fails
fetch_secret_or_default(secret_ref, namespace, apiOk) ==
  LET got == IF apiOk THEN GetSecret(namespace, secret_ref.name) ELSE None
  IN  IF got = None THEN Ok(default_token)
      ELSE
        LET secret == Unwrap(got)
        IN  IF secret.data # None /\ secret_ref.key \in DOMAIN Unwrap(secret.data)
            THEN LET d == from_utf8(Unwrap(secret.data)[secret_ref.key])
                 IN  IF d.valid THEN Ok(d.cps) ELSE Err("TokenEncoding", "")
            ELSE Err("SecretKeyMissing", secret_ref.key)

\* fetch_secret: one secret lookup; apiOk = FALSE is a failed API request.
fetch_secret(secret_ref, namespace, apiOk) ==
  LET got == IF apiOk THEN GetSecret(namespace, secret_ref.name) ELSE None
  IN  IF got = None THEN Err("SecretNotFound", secret_ref.name)
      ELSE
        LET secret == Unwrap(got)
        IN  IF secret.data # None /\ secret_ref.key \in DOMAIN Unwrap(secret.data)
            THEN LET d == from_utf8(Unwrap(secret.data)[secret_ref.key])
                 IN  IF d.valid THEN Ok(d.cps) ELSE Err("TokenEncoding", "")
            ELSE Err("SecretKeyMissing", secret_ref.key)

\* the three tests with the zone reference tested before the secret reference
resolve_branch_zone_first(resource) ==
  IF resource.zone_ref # None THEN "zone"
  ELSE IF resource.secret_ref # None THEN "secret"
  ELSE "default"

\* The branch resolve_token takes for a resource (the conditions of its
\* three `if let Some(..)` tests, in order).
resolve_branch(resource) ==
  IF resource.secret_ref # None THEN "secret"
  ELSE IF resource.zone_ref # None THEN "zone"
  ELSE IF resource.zone_ref # None THEN "account"
  ELSE "default"

\* One level of resolve_token for the resource in cur: either a final
\* outcome (next = None) or the parent object to recurse on (next = Some).
resolve_level(cur, namespace, apiOk) ==
  LET b == resolve_branch(cur)
  IN  IF b = "secret" THEN
        [next |-> None, result |-> fetch_secret(Unwrap(cur.secret_ref), namespace, apiOk)]
      ELSE IF b = "zone" THEN
        LET z_ref == Unwrap(cur.zone_ref)
            zone == IF apiOk THEN GetZone(namespace, z_ref) ELSE None
        IN  IF zone = None
            THEN [next |-> None, result |-> Err("ZoneNotFound", z_ref)]
            ELSE [next |-> zone, result |-> NoResult]
      ELSE IF b = "account" THEN
        LET a_ref == Unwrap(cur.zone_ref)
            account == IF apiOk THEN GetAccount(namespace, a_ref) ELSE None
        IN  IF account = None
            THEN [next |-> None, result |-> Err("AccountNotFound", a_ref)]
            ELSE [next |-> account, result |-> NoResult]
      ELSE [next |-> None, result |-> Ok(default_token)]

\* resolve_token as a whole: the recursion over the levels, with every
\* API request answered.
RECURSIVE resolve_token(_, _)
resolve_token(resource, namespace) ==
  LET r == resolve_level(resource, namespace, TRUE)
  IN  IF r.next # None THEN resolve_token(Unwrap(r.next), namespace) ELSE r.result

\* A CloudflareClient instance (the allocation behind an Arc): the n-th
\* client constructed for a token by the provider of a Context.
Client(kind, token, n) == [kind |-> kind, token |-> token, n |-> n]
NoClient == Client("", <<>>, 0)

IdleCall ==
  [pc |-> "idle", kind |-> "Zone", ns |-> "ns1", obj |-> "", cur |-> NoRefs,
   token |-> <<>>, client |-> NoClient]

\* What get_client handed back to its caller; NoOutcome when nothing was
\* handed back.
Outcome(st, hit, result) ==
  [kind |-> st.kind, ns |-> st.ns, obj |-> st.obj, token |-> st.token,
   hit |-> hit, result |-> result]

NoOutcome == Outcome(IdleCall, FALSE, NoResult)

\* Outcome of one level of resolve_token applied to the call of caller c:
\* recurse on the loaded parent, go on to the cache with the token, or
\* return the error to the caller of get_client (`?` in get_client).
AfterResolve(c, st, r) ==
  IF r.next # None
  THEN /\ call' = [call EXCEPT ![c] = [st EXCEPT !.pc = "resolve", !.cur = Unwrap(r.next)]]
       /\ last' = NoOutcome
  ELSE IF r.result.ok
  THEN /\ call' = [call EXCEPT ![c] = [st EXCEPT !.pc = "lock", !.token = r.result.val,
                                                 !.cur = NoRefs]]
       /\ last' = NoOutcome
  ELSE /\ call' = [call EXCEPT ![c] = IdleCall]
       /\ last' = Outcome(st, FALSE, r.result)

\* A loop calls ctx.provider.get_client(resource, namespace) for an object;
\* resolve_token runs up to its first await.
GetClientCall(c, kind, key) ==
  /\ call[c].pc = "idle"
  /\ ncalls < MaxCalls
  /\ key \in ResourceKeys(kind)
  \* at most one in-flight reconcile per object
  /\ \A d \in Callers : call[d].pc # "idle" =>
        <<call[d].kind, call[d].ns, call[d].obj>> # <<kind, key[1], key[2]>>
  /\ ncalls' = ncalls + 1
  /\ \E apiOk \in BOOLEAN :
       LET st == [IdleCall EXCEPT !.kind = kind, !.ns = key[1], !.obj = key[2],
                                 !.cur = ResourceRefs(kind, key[1], key[2])]
       IN  \E r \in {resolve_level(st.cur, st.ns, apiOk)} : AfterResolve(c, st, r)
  /\ UNCHANGED <<secrets, cache, lock, clients, returned, engVars, dnsVars, opVars>>

\* resolve_token recursing on the parent object it loaded.
ResolveStep(c) ==
  /\ call[c].pc = "resolve"
  /\ \E apiOk \in BOOLEAN :
       \E r \in {resolve_level(call[c].cur, call[c].ns, apiOk)} : AfterResolve(c, call[c], r)
  /\ UNCHANGED <<secrets, cache, lock, ncalls, clients, returned, engVars, dnsVars, opVars>>

\* a cache mutex that never excludes anybody
lock_always_free(kind) == TRUE

\* get_client_from_cache: self.cache.lock().await
lock_free(kind) == lock[kind] = 0

\* the MutexGuard taken by caller c
Acquire(c) == [lock EXCEPT ![call[c].kind] = c]

\* a lookup that never finds the cached handle
cache_get_miss(kind, token) == None

\* a lookup answered with whatever client the cache holds
cache_get_stale(kind, token) ==
  IF cache[kind] = {} THEN None ELSE Some((CHOOSE e \in cache[kind] : TRUE).client)

\* cache.get(&token)
cache_get(kind, token) == { e.client : e \in { x \in cache[kind] : x.token = token } }

\* a cache that holds the most recent client only
cache_insert_evicting(entries, token, client) == { [token |-> token, client |-> client] }

\* cache.insert(token, client)
cache_insert(entries, token, client) ==
  { e \in entries : e.token # token } \cup { [token |-> token, client |-> client] }

\* a failed construction that leaves an entry for the token behind
after_failed_new_cached(entries, token) == cache_insert(entries, token, NoClient)

\* CloudflareClient::new(token) failed: `?` returns before cache.insert
after_failed_new(entries, token) == entries

\* a MutexGuard that outlives get_client_from_cache
Release_leaked(c) == lock

\* the MutexGuard is dropped when get_client_from_cache returns
Release(c) == [lock EXCEPT ![call[c].kind] = IF @ = c THEN 0 ELSE @]

Handle(c, client) == [kind |-> call[c].kind, token |-> call[c].token, client |-> client]

Constructed(kind, token) == { cl \in clients : cl.kind = kind /\ cl.token = token }

\* get_client_from_cache from the moment the mutex is granted: cache.get(&token)
\* returns the cached handle on a hit; on a miss CloudflareClient::new(token)
\* runs, and its failure is returned as ClientCreation.
CacheLookup(c) ==
  /\ call[c].pc = "lock"
  /\ lock_free(call[c].kind)
  /\ LET found == cache_get(call[c].kind, call[c].token)
     IN  IF found # None
         THEN /\ returned' = returned \cup { Handle(c, Unwrap(found)) }
              /\ last' = Outcome(call[c], TRUE, Ok(<<Unwrap(found)>>))
              /\ call' = [call EXCEPT ![c] = IdleCall]
              /\ UNCHANGED <<cache, lock, clients>>
         ELSE \E built \in BOOLEAN :
                IF built
                THEN LET new == Client(call[c].kind, call[c].token,
                                       Cardinality(Constructed(call[c].kind, call[c].token)))
                     IN  /\ clients' = clients \cup {new}
                         /\ call' = [call EXCEPT ![c].pc = "insert", ![c].client = new]
                         /\ lock' = Acquire(c)
                         /\ last' = NoOutcome
                         /\ UNCHANGED <<cache, returned>>
                ELSE /\ last' = Outcome(call[c], FALSE, Err("ClientCreation", "new"))
                     /\ call' = [call EXCEPT ![c] = IdleCall]
                     /\ cache' = [cache EXCEPT ![call[c].kind] = after_failed_new(@, call[c].token)]
                     /\ UNCHANGED <<lock, clients, returned>>
  /\ UNCHANGED <<secrets, ncalls, engVars, dnsVars, opVars>>

\* cache.insert(token, arc_client.clone()); Ok(arc_client)
CacheInsert(c) ==
  /\ call[c].pc = "insert"
  /\ cache' = [cache EXCEPT ![call[c].kind] = cache_insert(@, call[c].token, call[c].client)]
  /\ lock' = Release(c)
  /\ returned' = returned \cup { Handle(c, call[c].client) }
  /\ last' = Outcome(call[c], FALSE, Ok(<<call[c].client>>))
  /\ call' = [call EXCEPT ![c] = IdleCall]
  /\ UNCHANGED <<secrets, ncalls, clients, engVars, dnsVars, opVars>>

\* A user creates, rewrites or deletes a secret.
EditSecret(slot, v) ==
  /\ secrets[slot] # v
  /\ secrets' = [secrets EXCEPT ![slot] = v]
  /\ last' = NoOutcome
  /\ UNCHANGED <<cache, lock, call, ncalls, clients, returned, engVars, dnsVars, opVars>>

vars == <<secrets, cache, lock, call, ncalls, clients, returned, last,
          zmeta, zstatus, aready, rec, cfCalls,
          dspec, dmeta, dstatus, drec, dnsCalls,
          loops, shutdown, faults>>

\* ------------------------------------------------------- Zone controller
DOCUMENT_FINALIZER == "zone.cloudflare.com"

ExternalIds == {"zid1", "zid2"}

\* Action::requeue(Duration::from_secs(n)) / Action::await_change()
Requeue(n) == [kind |-> "requeue", secs |-> n]
AwaitChange == [kind |-> "await_change", secs |-> 0]
NoAction == [kind |-> "none", secs |-> 0]

\* events: the events the reconcile handed to ctx.recorder.publish;
\* failures: the increments of the failures counter made for the reconcile
IdleRec ==
  [pc |-> "idle", created |-> NoResult, err |-> "", action |-> NoAction,
   events |-> <<>>, failures |-> <<>>]

\* a cleanup event with the reason of a hide request
hide_requested(name) ==
  [type_ |-> "Normal", reason |-> "HideRequested",
   note |-> Some(<<"Delete", name>>), action |-> "Deleting", secondary |-> None]

\* The Event cleanup builds for the object called name; the note is the
\* text "Delete" followed by the quoted name.
delete_requested(name) ==
  [type_ |-> "Normal", reason |-> "DeleteRequested",
   note |-> Some(<<"Delete", name>>), action |-> "Deleting", secondary |-> None]

\* ctx.recorder.publish(&event, &oref): the request as the API server sees
\* it, oref naming the object of the given kind the event is about.
Publish(kind, key, event, ok) ==
  [event |-> event, oref |-> [kind |-> kind, namespace |-> key[1], name |-> key[2]],
   ok |-> ok]

\* ------------------------------------------------------- failure metrics
\* The text of an identifier, character by character.
Letters ==
  ( "FinalizerError" :> <<"F", "i", "n", "a", "l", "i", "z", "e", "r", "E", "r", "r", "o", "r">> ) @@
  ( "ApplyFailed" :> <<"A", "p", "p", "l", "y", "F", "a", "i", "l", "e", "d">> ) @@
  ( "CleanupFailed" :> <<"C", "l", "e", "a", "n", "u", "p", "F", "a", "i", "l", "e", "d">> ) @@
  ( "AddFinalizer" :> <<"A", "d", "d", "F", "i", "n", "a", "l", "i", "z", "e", "r">> ) @@
  ( "RemoveFinalizer" :> <<"R", "e", "m", "o", "v", "e", "F", "i", "n", "a", "l", "i", "z", "e", "r">> ) @@
  ( "IllegalDocument" :> <<"I", "l", "l", "e", "g", "a", "l", "D", "o", "c", "u", "m", "e", "n", "t">> ) @@
  ( "InvalidIpAddress" :> <<"I", "n", "v", "a", "l", "i", "d", "I", "p", "A", "d", "d", "r", "e", "s", "s">> ) @@
  ( "AddrParseError" :> <<"A", "d", "d", "r", "P", "a", "r", "s", "e", "E", "r", "r", "o", "r">> ) @@
  ( "Ipv4" :> <<"I", "p", "v", "4">> ) @@
  ( "Ipv6" :> <<"I", "p", "v", "6">> ) @@
  ( "UnsupportedRecordType" :> <<"U", "n", "s", "u", "p", "p", "o", "r", "t", "e", "d", "R", "e", "c", "o", "r", "d", "T", "y", "p", "e">> ) @@
  ( "CloudflareApiError" :> <<"C", "l", "o", "u", "d", "f", "l", "a", "r", "e", "A", "p", "i", "E", "r", "r", "o", "r">> ) @@
  ( "KubeError" :> <<"K", "u", "b", "e", "E", "r", "r", "o", "r">> ) @@
  ( "Api" :> <<"A", "p", "i">> ) @@
  ( "ErrorResponse" :> <<"E", "r", "r", "o", "r", "R", "e", "s", "p", "o", "n", "s", "e">> ) @@
  ( "Timeout" :> <<"T", "i", "m", "e", "o", "u", "t">> ) @@
  ( "SRV" :> <<"S", "R", "V">> ) @@
  ( "a" :> <<"a">> )

UpperCase == <<"A", "B", "C", "D", "E", "F", "G", "H", "I", "J", "K", "L", "M", "N", "O", "P", "Q", "R", "S", "T", "U", "V", "W", "X", "Y", "Z">>
LowerCase == <<"a", "b", "c", "d", "e", "f", "g", "h", "i", "j", "k", "l", "m", "n", "o", "p", "q", "r", "s", "t", "u", "v", "w", "x", "y", "z">>

\* char::to_lowercase for the characters of the error renderings
lower(ch) ==
  IF \E i \in 1..26 : UpperCase[i] = ch
  THEN LowerCase[CHOOSE i \in 1..26 : UpperCase[i] = ch]
  ELSE ch

\* str::to_lowercase
to_lowercase(s) == [i \in 1..Len(s) |-> lower(s[i])]

\* An error value: an enum variant (or tuple struct) with its fields, or a
\* String.
Variant(name, fields) == [name |-> name, quoted |-> FALSE, fields |-> fields]
Str(name) == [name |-> name, quoted |-> TRUE, fields |-> <<>>]

\* {:?} of an error value: #[derive(Debug)] prints a unit variant as its
\* name and a tuple variant as Name(field); a Box prints as its content; a
\* String prints between double quotes.
RECURSIVE debug(_)
debug(v) ==
  IF v.quoted THEN <<"\"">> \o Letters[v.name] \o <<"\"">>
  ELSE IF v.fields = <<>> THEN Letters[v.name]
  ELSE Letters[v.name] \o <<"(">> \o debug(v.fields[1]) \o <<")">>

\* a label that is the name of the outer variant, as written
metric_label_display(e) == Letters[e.name]

\* Error::metric_label: format!("{self:?}").to_lowercase(); the String
\* format! built is the one value to_lowercase is called on
metric_label(e) == CHOOSE label \in { to_lowercase(rendered) : rendered \in {debug(e)} } : TRUE

\* a kube::Error and an anyhow::Error of the fixture (fields not shown)
KubeFailure == Variant("Api", <<Variant("ErrorResponse", <<>>)>>)
UpstreamFailure == Variant("Timeout", <<>>)

\* The crate::Error a failed step of Apply or Cleanup returned, from its
\* kind and argument; type is the record type of the object.
LogicError(err, arg, type) ==
  IF err = "IllegalDocument" THEN Variant("IllegalDocument", <<>>)
  ELSE IF err = "InvalidIpAddress"
    THEN Variant("InvalidIpAddress",
                 <<Variant("AddrParseError", <<Variant(IF type = "A" THEN "Ipv4" ELSE "Ipv6", <<>>)>>)>>)
  ELSE IF err = "UnsupportedRecordType" THEN Variant("UnsupportedRecordType", <<Str(arg)>>)
  ELSE IF err = "CloudflareApiError" THEN Variant("CloudflareApiError", <<UpstreamFailure>>)
  ELSE Variant("KubeError", <<KubeFailure>>)

\* What reconcile() returns for a failed reconcile:
\* finalizer(..).await.map_err(|e| Error::FinalizerError(Box::new(e))),
\* where finalizer() wraps the error of the closure into ApplyFailed or
\* CleanupFailed and reports its own failed patches as AddFinalizer or
\* RemoveFinalizer.
ReconcileError(event, err, arg, type) ==
  Variant("FinalizerError",
    << IF err \in {"AddFinalizer", "RemoveFinalizer"} THEN Variant(err, <<KubeFailure>>)
       ELSE IF event = "cleanup" THEN Variant("CleanupFailed", <<LogicError(err, arg, type)>>)
       ELSE Variant("ApplyFailed", <<LogicError(err, arg, type)>>) >>)

\* ErrorLabels { instance, error }
ErrorLabels(instance, error) == [instance |-> instance, error |-> error]

\* ctx.metrics.reconcile.set_failure(&doc, error): one increment of the
\* failures counter with the labels of the object and of the error.
set_failure(increments, name, e) == Append(increments, ErrorLabels(name, metric_label(e)))

\* state of the Account a Zone names in spec.account_ref, as the API server
\* holds it when the Zone is applied
AccountState(z) ==
  LET ref == ZoneSpecs[z].account_ref
  IN  IF ref = None THEN "unreferenced"
      ELSE IF <<z[1], Unwrap(ref)>> \notin AccountKeys THEN "missing"
      ELSE IF aready[<<z[1], Unwrap(ref)>>] THEN "ready" ELSE "notready"

\* a dispatch that applies an object whether or not it carries the finalizer
finalizer_state_no_gate(m) ==
  IF ~m.deleting THEN "apply"
  ELSE IF m.finalizer THEN "cleanup"
  ELSE "done"

\* a dispatch that looks at the finalizer only, never at the deletion
\* timestamp
finalizer_state_without_deletion(m) ==
  IF m.finalizer THEN "apply" ELSE "add_finalizer"

\* kube::runtime::finalizer: the branch chosen from the object's finalizers
\* and deletion timestamp.
finalizer_state(m) ==
  IF m.finalizer /\ ~m.deleting THEN "apply"
  ELSE IF m.finalizer /\ m.deleting THEN "cleanup"
  ELSE IF ~m.finalizer /\ ~m.deleting THEN "add_finalizer"
  ELSE "done"

\* reconcile(doc, ctx): the controller hands over the object; finalizer()
\* picks the branch.
ReconcileStart(z) ==
  /\ zmeta[z].exists
  /\ rec[z].pc \in {"idle", "done"}
  /\ LET b == finalizer_state(zmeta[z])
     IN  rec' = [rec EXCEPT ![z] =
           IF b = "done" THEN [IdleRec EXCEPT !.pc = "done", !.action = AwaitChange]
           ELSE [IdleRec EXCEPT !.pc = b]]
  /\ UNCHANGED <<zmeta, zstatus, aready, cfCalls, provVars, dnsVars, opVars>>

\* finalizer(): the patch that appends the finalizer.
AddFinalizer(z) ==
  /\ rec[z].pc = "add_finalizer"
  /\ \E apiOk \in Answers :
       IF apiOk /\ zmeta[z].exists
       THEN /\ zmeta' = [zmeta EXCEPT ![z].finalizer = TRUE]
            /\ rec' = [rec EXCEPT ![z].pc = "done", ![z].action = AwaitChange]
       ELSE /\ zmeta' = zmeta
            /\ rec' = [rec EXCEPT ![z].pc = "failed", ![z].err = "AddFinalizer"]
  /\ UNCHANGED <<zstatus, aready, cfCalls, provVars, dnsVars, opVars>>

\* Zone::reconcile up to ctx.cf_client.create_zone(zone_params).await; the
\* client is the one run() built from CLOUDFLARE_API_TOKEN.
ApplyCreateZone(z) ==
  /\ rec[z].pc = "apply"
  /\ IF z[2] = "illegal"
     THEN /\ rec' = [rec EXCEPT ![z].pc = "failed", ![z].err = "ApplyFailed(IllegalDocument)"]
          /\ cfCalls' = cfCalls
     ELSE \E res \in Outcomes({Err("CloudflareApiError", "create_zone")} \cup { Ok(i) : i \in ExternalIds }) :
          /\ cfCalls' = cfCalls \cup
                { [op |-> "create_zone", zone |-> z, token |-> default_token,
                   ok |-> res.ok] }
          /\ rec' = [rec EXCEPT ![z].pc = "patch", ![z].created = res]
  /\ UNCHANGED <<zmeta, zstatus, aready, provVars, dnsVars, opVars>>

\* The status Zone::reconcile serialises into the apply patch.
new_status(created) == [ready |-> created.ok, id |-> None, error |-> None]

\* docs.patch_status(.., PatchParams::apply("cntrlr").force(), ..).await
\* and the Action returned after it.
success_requeue == Requeue(5 * 60)

ApplyPatchStatus(z) ==
  /\ rec[z].pc = "patch"
  /\ \E apiOk \in Answers :
       IF apiOk /\ zmeta[z].exists
       THEN /\ zstatus' = [zstatus EXCEPT ![z] = Some(new_status(rec[z].created))]
            /\ rec' = [rec EXCEPT ![z].pc = "done", ![z].action = success_requeue,
                                  ![z].created = NoResult]
       ELSE /\ zstatus' = zstatus
            /\ rec' = [rec EXCEPT ![z].pc = "failed", ![z].err = "ApplyFailed(KubeError)",
                                  ![z].created = NoResult]
  /\ UNCHANGED <<zmeta, aready, cfCalls, provVars, dnsVars, opVars>>

\* Zone::cleanup: publish the DeleteRequested event.
CleanupPublish(z) ==
  /\ rec[z].pc = "cleanup"
  /\ \E apiOk \in Answers :
       rec' = [rec EXCEPT ![z] =
         IF apiOk THEN [@ EXCEPT !.pc = "remove_finalizer", !.action = AwaitChange,
                                 !.events = Append(@, Publish("Zone", z, delete_requested(z[2]), TRUE))]
         ELSE [@ EXCEPT !.pc = "failed", !.err = "CleanupFailed(KubeError)",
                        !.events = Append(@, Publish("Zone", z, delete_requested(z[2]), FALSE))]]
  /\ UNCHANGED <<zmeta, zstatus, aready, cfCalls, provVars, dnsVars, opVars>>

\* finalizer(): the patch that removes the finalizer; the API server then
\* completes the deletion.
RemoveFinalizer(z) ==
  /\ rec[z].pc = "remove_finalizer"
  /\ \E apiOk \in Answers :
       IF apiOk /\ zmeta[z].exists
       THEN /\ zmeta' = [zmeta EXCEPT ![z].finalizer = FALSE, ![z].exists = FALSE]
            /\ zstatus' = [zstatus EXCEPT ![z] = None]
            /\ rec' = [rec EXCEPT ![z].pc = "done"]
       ELSE /\ UNCHANGED <<zmeta, zstatus>>
            /\ rec' = [rec EXCEPT ![z].pc = "failed", ![z].err = "RemoveFinalizer",
                                  ![z].action = NoAction]
  /\ UNCHANGED <<aready, cfCalls, provVars, dnsVars, opVars>>

\* an error_policy that waits for the next change of the object
error_await_change == AwaitChange

\* error_policy(doc, error, ctx)
error_requeue == Requeue(5 * 60)

\* the Error a failed Zone reconcile returned
ZoneReconcileError(err) ==
  IF err = "ApplyFailed(IllegalDocument)" THEN ReconcileError("apply", "IllegalDocument", "", "")
  ELSE IF err = "ApplyFailed(KubeError)" THEN ReconcileError("apply", "KubeError", "", "")
  ELSE IF err = "CleanupFailed(KubeError)" THEN ReconcileError("cleanup", "KubeError", "", "")
  ELSE ReconcileError("", err, "", "")

ErrorPolicy(z) ==
  /\ rec[z].pc = "failed"
  /\ \E error \in {ZoneReconcileError(rec[z].err)} :
       rec' = [rec EXCEPT ![z].pc = "done", ![z].action = error_requeue,
                          ![z].failures = set_failure(@, z[2], error)]
  /\ UNCHANGED <<zmeta, zstatus, aready, cfCalls, provVars, dnsVars, opVars>>

\* A user deletes a Zone: the API server sets the deletion timestamp, and
\* removes the object at once when it carries no finalizer.
UserDeleteZone(z) ==
  /\ zmeta[z].exists /\ ~zmeta[z].deleting
  /\ zmeta' = [zmeta EXCEPT ![z].deleting = TRUE,
                            ![z].exists = zmeta[z].finalizer]
  /\ zstatus' = [zstatus EXCEPT ![z] = IF zmeta[z].finalizer THEN @ ELSE None]
  /\ UNCHANGED <<aready, rec, cfCalls, provVars, dnsVars, opVars>>

\* The Account controller patches an Account's status.ready.
AccountStatusPatch(a, ready) ==
  /\ aready[a] # ready
  /\ aready' = [aready EXCEPT ![a] = ready]
  /\ UNCHANGED <<zmeta, zstatus, rec, cfCalls, provVars, dnsVars, opVars>>

FreshMeta == [exists |-> TRUE, finalizer |-> FALSE, deleting |-> FALSE]
NoMeta == [exists |-> FALSE, finalizer |-> FALSE, deleting |-> FALSE]

InitEngineIdle ==
  /\ zstatus = [z \in ZoneKeys |-> None]
  /\ aready = [a \in AccountKeys |-> FALSE]
  /\ rec = [z \in ZoneKeys |-> IdleRec]
  /\ cfCalls = {}

\* ------------------------------------------------------------ DNS records
\* A &str as the sequence of its characters.
Digits == <<"0", "1", "2", "3", "4", "5", "6", "7", "8", "9">>
HexLetters == <<"a", "b", "c", "d", "e", "f">>
HexCapitals == <<"A", "B", "C", "D", "E", "F">>

\* char::to_digit(radix): the value of a digit, None for any other character
to_digit(ch, radix) ==
  LET dec == { i \in 1..10 : Digits[i] = ch }
      low == { i \in 1..6 : HexLetters[i] = ch }
      cap == { i \in 1..6 : HexCapitals[i] = ch }
  IN  IF dec # {} THEN Some((CHOOSE i \in dec : TRUE) - 1)
      ELSE IF radix = 16 /\ low # {} THEN Some((CHOOSE i \in low : TRUE) + 9)
      ELSE IF radix = 16 /\ cap # {} THEN Some((CHOOSE i \in cap : TRUE) + 9)
      ELSE None

NoParse == [ok |-> FALSE, val |-> <<>>, next |-> 0]
Parsed(v, next) == [ok |-> TRUE, val |-> v, next |-> next]

\* std::net parser, read_number: the digits at position i ...
RECURSIVE read_digits(_, _, _, _)
RECURSIVE read_digit(_, _, _, _, _)
read_digit(s, i, radix, acc, digit) ==
  IF digit = None THEN Parsed(acc, i)
  ELSE read_digits(s, i + 1, radix, Append(acc, Unwrap(digit)))

read_digits(s, i, radix, acc) ==
  IF i < 1 \/ i > Len(s) THEN Parsed(acc, i)
  ELSE read_digit(s, i, radix, acc, to_digit(s[i], radix))

RECURSIVE digits_value(_, _)
digits_value(ds, radix) ==
  IF ds = <<>> THEN 0
  ELSE digits_value(SubSeq(ds, 1, Len(ds) - 1), radix) * radix + ds[Len(ds)]

\* ... at most max_digits of them, without a zero prefix unless allowed,
\* below the limit of the integer type read.
checked_number(r, value, max_digits, allow_zero_prefix, limit) ==
  IF Len(r.val) = 0 \/ Len(r.val) > max_digits THEN NoParse
  ELSE IF ~allow_zero_prefix /\ Len(r.val) > 1 /\ r.val[1] = 0 THEN NoParse
  ELSE IF value >= limit THEN NoParse
  ELSE Parsed(<<value>>, r.next)

number_of(r, radix, max_digits, allow_zero_prefix, limit) ==
  checked_number(r, digits_value(r.val, radix), max_digits, allow_zero_prefix, limit)

read_number(s, i, radix, max_digits, allow_zero_prefix, limit) ==
  number_of(read_digits(s, i, radix, <<>>), radix, max_digits, allow_zero_prefix, limit)

\* the position after the separator sep expected at i once a group has been
\* read (0: the separator is missing)
after_separator(s, i, sep, first) ==
  IF first THEN i
  ELSE IF i >= 1 /\ i <= Len(s) /\ s[i] = sep THEN i + 1
  ELSE 0

\* read_ipv4_addr: four decimal octets separated by '.'
RECURSIVE read_ipv4_octets(_, _, _)
RECURSIVE read_ipv4_octet(_, _, _)
read_ipv4_octet(s, acc, r) ==
  IF r.ok THEN read_ipv4_octets(s, r.next, acc \o r.val) ELSE NoParse

read_ipv4_octets(s, i, acc) ==
  IF Len(acc) = 4 THEN Parsed(acc, i)
  ELSE read_ipv4_octet(s, acc,
         read_number(s, after_separator(s, i, ".", acc = <<>>), 10, 3, FALSE, 256))

read_ipv4_addr(s, i) == read_ipv4_octets(s, i, <<>>)

\* the parse succeeds when the address is the whole input
whole_input(s, r) == IF r.ok /\ r.next = Len(s) + 1 THEN Ok(r.val) ELSE Err("InvalidIpAddress", "")

\* a parse that falls back to the unspecified address
whole_input_or_default(s, r) == IF r.ok /\ r.next = Len(s) + 1 THEN Ok(r.val) ELSE Ok(<<0, 0, 0, 0>>)

\* content.parse::<Ipv4Addr>() with a default for what does not parse
parse_ipv4_lenient(s) == whole_input_or_default(s, read_ipv4_addr(s, 1))

\* content.parse::<Ipv4Addr>()
parse_ipv4(s) == whole_input(s, read_ipv4_addr(s, 1))

\* read_ipv6_addr, read_groups: up to limit 16-bit groups from position i;
\* a dotted IPv4 address may stand for the last two of them.
Groups(groups, next, v4) == [groups |-> groups, next |-> next, v4 |-> v4]

RECURSIVE read_groups(_, _, _, _)
RECURSIVE read_hex_group(_, _, _, _, _)
read_hex_group(s, i, limit, acc, g) ==
  IF g.ok THEN read_groups(s, g.next, limit, acc \o g.val) ELSE Groups(acc, i, FALSE)

read_group(s, i, j, limit, acc, v4) ==
  IF Len(acc) < limit - 1 /\ v4.ok
  THEN Groups(acc \o << v4.val[1] * 256 + v4.val[2], v4.val[3] * 256 + v4.val[4] >>,
              v4.next, TRUE)
  ELSE read_hex_group(s, i, limit, acc, read_number(s, j, 16, 4, TRUE, 65536))

read_groups(s, i, limit, acc) ==
  IF Len(acc) >= limit THEN Groups(acc, i, FALSE)
  ELSE read_group(s, i, after_separator(s, i, ":", acc = <<>>), limit, acc,
                  read_ipv4_addr(s, after_separator(s, i, ":", acc = <<>>)))

Zeros(n) == [k \in 1..n |-> 0]

\* read_ipv6_addr: eight groups, or a head and a tail around one "::"
ipv6_addr(s, head, tail) ==
  IF Len(head.groups) = 8
  THEN IF head.next = Len(s) + 1 THEN Ok(head.groups) ELSE Err("InvalidIpAddress", "")
  ELSE IF head.v4 \/ after_separator(s, after_separator(s, head.next, ":", FALSE), ":", FALSE) = 0
  THEN Err("InvalidIpAddress", "")
  ELSE IF tail.next = Len(s) + 1
  THEN Ok(head.groups \o Zeros(8 - Len(head.groups) - Len(tail.groups)) \o tail.groups)
  ELSE Err("InvalidIpAddress", "")

ipv6_tail(s, head) ==
  ipv6_addr(s, head, read_groups(s, head.next + 2, 7 - Len(head.groups), <<>>))

\* content.parse::<Ipv6Addr>()
parse_ipv6(s) == ipv6_tail(s, read_groups(s, 1, 8, <<>>))

\* DNSRecordSpec { zone_ref, name, record_type, content, ttl, priority, proxied }
RecordSpec(record_type, content, priority) ==
  [zone_ref |-> "z2", name |-> "www", record_type |-> record_type, content |-> content,
   ttl |-> Some(300), priority |-> priority, proxied |-> None]

RecordSamples ==
  {
    RecordSpec("A", <<"1", "0", ".", "0", ".", "0", ".", "1">>, None),
    RecordSpec("A", <<"2", "5", "6", ".", "0", ".", "0", ".", "1">>, None),
    RecordSpec("A", <<"0", "1", ".", "2", ".", "3", ".", "4">>, None),
    RecordSpec("A", <<"1", ".", "2", ".", "3">>, None),
    RecordSpec("A", <<"n", "o", "t", "-", "a", "n", "-", "i", "p">>, None),
    RecordSpec("A", <<":", ":", "1">>, None),
    RecordSpec("AAAA", <<":", ":", "1">>, None),
    RecordSpec("AAAA", <<"2", "0", "0", "1", ":", "d", "b", "8", ":", ":", "1">>, None),
    RecordSpec("AAAA", <<":", ":", "f", "f", "f", "f", ":", "1", ".", "2", ".", "3", ".", "4">>, None),
    RecordSpec("AAAA", <<"1", "0", ".", "0", ".", "0", ".", "1">>, None),
    RecordSpec("AAAA", <<"1", "2", "3", "4", "5", ":", ":">>, None),
    RecordSpec("CNAME", <<"a", ".", "b">>, None),
    RecordSpec("TXT", <<"h", "i">>, None),
    RecordSpec("MX", <<"m", "x", ".", "b">>, None),
    RecordSpec("MX", <<"m", "x", ".", "b">>, Some(20)),
    RecordSpec("SRV", <<"a", ".", "b">>, None),
    RecordSpec("a", <<"1", "0", ".", "0", ".", "0", ".", "1">>, None) }

DefaultSpec == RecordSpec("TXT", <<"h", "i">>, None)

\* the DNSRecord objects of the cluster: metadata.namespace, metadata.name
DnsObjs == { <<"ns1", "www">>, <<"ns1", "illegal">> }

\* cf_client::DnsContent
DnsContent(type, addr, text, priority) ==
  [type |-> type, addr |-> addr, text |-> text, priority |-> priority]

\* priority: self.spec.priority.unwrap_or(..) with another default
mx_priority_zero(priority) == IF priority = None THEN 0 ELSE Unwrap(priority)

\* priority: self.spec.priority.unwrap_or(10)
mx_priority(priority) == IF priority = None THEN 10 ELSE Unwrap(priority)

\* an address-typed arm of the match: the parsed content, or the parse error
\* returned by `?`
address_content(type, parsed) ==
  IF parsed.ok THEN Ok(<<DnsContent(type, parsed.val, <<>>, None)>>) ELSE parsed

\* the arms "A", "AAAA", "CNAME", "MX", "TXT"
typed_content(spec) ==
  IF spec.record_type = "A" THEN address_content("A", parse_ipv4(spec.content))
  ELSE IF spec.record_type = "AAAA" THEN address_content("AAAA", parse_ipv6(spec.content))
  ELSE IF spec.record_type = "MX"
    THEN Ok(<<DnsContent("MX", <<>>, spec.content, Some(mx_priority(spec.priority)))>>)
  ELSE Ok(<<DnsContent(spec.record_type, <<>>, spec.content, None)>>)

\* the match on record_type with a catch-all arm that builds a TXT record
dns_content_catch_all(spec) ==
  IF spec.record_type \in {"A", "AAAA", "CNAME", "MX", "TXT"} THEN typed_content(spec)
  ELSE Ok(<<DnsContent("TXT", <<>>, spec.content, None)>>)

\* let content = match self.spec.record_type.as_str() { .. }
dns_content(spec) ==
  IF spec.record_type \in {"A", "AAAA", "CNAME", "MX", "TXT"} THEN typed_content(spec)
  ELSE Err("UnsupportedRecordType", spec.record_type)

\* CreateDnsRecordParams { ttl, priority, proxied, name, content } sent to
\* create_dns_record(zone_id, params) by the client run() built from
\* CLOUDFLARE_API_TOKEN
CreateDnsRecord(d, spec, content, ok) ==
  [op |-> "create_dns_record", rec |-> d, zone_id |-> spec.zone_ref,
   ttl |-> spec.ttl, priority |-> spec.priority, proxied |-> spec.proxied,
   name |-> spec.name, content |-> content, token |-> default_token, ok |-> ok]

RecordIds == {"rid1", "rid2"}

\* DNSRecordStatus { ready, record_id }
DNSRecordStatus(ready, record_id) == [ready |-> ready, record_id |-> record_id]

\* --------------------------------------------------- DNSRecord controller
DNS_DOCUMENT_FINALIZER == "dnsrecord.cloudflare.com"

\* event: the Finalizer event the reconcile was dispatched on
IdleDnsRec ==
  [pc |-> "idle", event |-> "", created |-> NoResult, error |-> NoResult,
   action |-> NoAction, cleanup |-> "none", events |-> <<>>, failures |-> <<>>]

\* reconcile(doc, ctx): the controller hands over the object; finalizer()
\* picks the branch.
DnsReconcileStart(d) ==
  /\ dmeta[d].exists
  /\ drec[d].pc \in {"idle", "done"}
  /\ LET b == finalizer_state(dmeta[d])
     IN  drec' = [drec EXCEPT ![d] =
           IF b = "done" THEN [IdleDnsRec EXCEPT !.pc = "done", !.event = b, !.action = AwaitChange]
           ELSE [IdleDnsRec EXCEPT !.pc = b, !.event = b]]
  /\ UNCHANGED <<dspec, dmeta, dstatus, dnsCalls, provVars, engVars, opVars>>

\* a failed finalizer patch reported like a failed status patch of Apply
finalizer_patch_error_as_apply(step) == Err("KubeError", "patch_status")

\* finalizer(): what it returns when its own patch of the finalizers fails,
\* Error::AddFinalizer(e) or Error::RemoveFinalizer(e)
finalizer_patch_error(step) == Err(step, "")

\* finalizer(): the patch that appends the finalizer.
DnsAddFinalizer(d) ==
  /\ drec[d].pc = "add_finalizer"
  /\ \E apiOk \in Answers :
       IF apiOk /\ dmeta[d].exists
       THEN /\ dmeta' = [dmeta EXCEPT ![d].finalizer = TRUE]
            /\ drec' = [drec EXCEPT ![d].pc = "done", ![d].action = AwaitChange]
       ELSE /\ dmeta' = dmeta
            /\ drec' = [drec EXCEPT ![d].pc = "failed", ![d].error = finalizer_patch_error("AddFinalizer")]
  /\ UNCHANGED <<dspec, dstatus, dnsCalls, provVars, engVars, opVars>>

\* a name check that lets every document through
illegal_document_off(name) == FALSE

\* if name == "illegal"
illegal_document(name) == name = "illegal"

\* DNSRecord::reconcile up to ctx.cf_client.create_dns_record(..).await?
DnsApplyContent(d, content) ==
  IF illegal_document(d[2])
  THEN /\ drec' = [drec EXCEPT ![d].pc = "failed", ![d].error = Err("IllegalDocument", "")]
       /\ dnsCalls' = dnsCalls
  ELSE IF ~content.ok
  THEN /\ drec' = [drec EXCEPT ![d].pc = "failed", ![d].error = content]
       /\ dnsCalls' = dnsCalls
  ELSE \E res \in Outcomes({Err("CloudflareApiError", "create_dns_record")}
                            \cup { Ok(<<i>>) : i \in RecordIds }) :
         /\ dnsCalls' = dnsCalls \cup
               { CreateDnsRecord(d, dspec[d], content.val[1], res.ok) }
         /\ drec' = [drec EXCEPT ![d] =
               IF res.ok THEN [@ EXCEPT !.pc = "patch", !.created = res]
               ELSE [@ EXCEPT !.pc = "failed", !.error = res]]

DnsApply(d) ==
  /\ drec[d].pc = "apply"
  /\ DnsApplyContent(d, dns_content(dspec[d]))
  /\ UNCHANGED <<dspec, dmeta, dstatus, provVars, engVars, opVars>>

\* a status that reports ready without the id of the created record
new_dns_status_without_id(created) == DNSRecordStatus(TRUE, None)

\* The status DNSRecord::reconcile serialises into the apply patch.
new_dns_status(created) == DNSRecordStatus(TRUE, Some(created.val[1]))

\* an Apply that returns Action::await_change()
dns_success_await_change == AwaitChange

\* docs.patch_status(&name, &PatchParams::apply("cntrlr").force(), ..).await
\* and the Action returned after it.
dns_success_requeue == Requeue(5 * 60)

DnsPatchStatus(d) ==
  /\ drec[d].pc = "patch"
  /\ \E apiOk \in Answers :
       IF apiOk /\ dmeta[d].exists
       THEN /\ dstatus' = [dstatus EXCEPT ![d] = Some(new_dns_status(drec[d].created))]
            /\ drec' = [drec EXCEPT ![d].pc = "done", ![d].action = dns_success_requeue]
       ELSE /\ dstatus' = dstatus
            /\ drec' = [drec EXCEPT ![d].pc = "failed", ![d].error = Err("KubeError", "patch_status")]
  /\ UNCHANGED <<dspec, dmeta, dnsCalls, provVars, engVars, opVars>>

\* a cleanup whose failed event publication is not propagated
cleanup_result_ignored(published) == "remove_finalizer"

\* DNSRecord::cleanup: .publish(..).await.map_err(Error::KubeError)?
cleanup_result(published) == IF published THEN "remove_finalizer" ELSE "failed"

\* DNSRecord::cleanup: publish the DeleteRequested event.
DnsCleanupPublish(d) ==
  /\ drec[d].pc = "cleanup"
  /\ \E published \in Answers :
       drec' = [drec EXCEPT ![d] =
         [@ EXCEPT !.pc = cleanup_result(published),
                   !.cleanup = IF published THEN "ok" ELSE "err",
                   !.events = Append(@, Publish("DNSRecord", d, delete_requested(d[2]), published)),
                   !.action = IF published THEN AwaitChange ELSE NoAction,
                   !.error = IF published THEN NoResult ELSE Err("KubeError", "publish")]]
  /\ UNCHANGED <<dspec, dmeta, dstatus, dnsCalls, provVars, engVars, opVars>>

\* finalizer(): the patch that removes the finalizer; the API server then
\* completes the deletion.
DnsRemoveFinalizer(d) ==
  /\ drec[d].pc = "remove_finalizer"
  /\ \E apiOk \in Answers :
       IF apiOk /\ dmeta[d].exists
       THEN /\ dmeta' = [dmeta EXCEPT ![d].finalizer = FALSE, ![d].exists = FALSE]
            /\ dstatus' = [dstatus EXCEPT ![d] = None]
            /\ drec' = [drec EXCEPT ![d].pc = "done"]
       ELSE /\ UNCHANGED <<dmeta, dstatus>>
            /\ drec' = [drec EXCEPT ![d].pc = "failed", ![d].error = finalizer_patch_error("RemoveFinalizer"),
                                    ![d].action = NoAction]
  /\ UNCHANGED <<dspec, dnsCalls, provVars, engVars, opVars>>

\* an error_policy that waits for the next change of the object
dns_error_await_change == AwaitChange

\* error_policy(doc, error, ctx): error is the Err reconcile() returned
dns_error_requeue == Requeue(5 * 60)

\* the Error a failed DNSRecord reconcile returned
DnsReconcileError(r, spec) ==
  ReconcileError(r.event, r.error.err, r.error.arg, spec.record_type)

DnsErrorPolicy(d) ==
  /\ drec[d].pc = "failed"
  /\ \E error \in {DnsReconcileError(drec[d], dspec[d])} :
       drec' = [drec EXCEPT ![d].pc = "done", ![d].action = dns_error_requeue,
                            ![d].failures = set_failure(@, d[2], error)]
  /\ UNCHANGED <<dspec, dmeta, dstatus, dnsCalls, provVars, engVars, opVars>>

\* A user deletes a DNSRecord: the API server sets the deletion timestamp,
\* and removes the object at once when it carries no finalizer.
UserDeleteRecord(d) ==
  /\ dmeta[d].exists /\ ~dmeta[d].deleting
  /\ dmeta' = [dmeta EXCEPT ![d].deleting = TRUE, ![d].exists = dmeta[d].finalizer]
  /\ dstatus' = [dstatus EXCEPT ![d] = IF dmeta[d].finalizer THEN @ ELSE None]
  /\ UNCHANGED <<dspec, drec, dnsCalls, provVars, engVars, opVars>>

\* lib.rs run(): the three loops are polled by one select!; no signal yet.
InitOperatorIdle ==
  /\ loops = [k \in Kinds |-> "running"]
  /\ shutdown = FALSE
  /\ faults = TRUE

InitDnsIdle ==
  /\ dspec = [d \in DnsObjs |-> DefaultSpec]
  /\ dmeta = [d \in DnsObjs |-> NoMeta]
  /\ dstatus = [d \in DnsObjs |-> None]
  /\ drec = [d \in DnsObjs |-> IdleDnsRec]
  /\ dnsCalls = {}

InitProvider ==
  /\ secrets = ( <<"ns1", "s1">> :> Some(SecretWith("token", <<84>>)) ) @@
               ( <<"ns2", "s1">> :> Some(SecretWith("token", <<195, 169>>)) )
  /\ cache = [k \in Kinds |-> {}]
  /\ lock = [k \in Kinds |-> 0]
  /\ call = [c \in Callers |-> IdleCall]
  /\ ncalls = 0
  /\ clients = {}
  /\ returned = {}
  /\ last = NoOutcome

\* Provider specification: every Zone of the fixture exists, callers of
\* get_client run against it.
Init ==
  /\ InitProvider
  /\ InitEngineIdle
  /\ InitDnsIdle
  /\ InitOperatorIdle
  /\ zmeta = [z \in ZoneKeys |-> FreshMeta]

ObjectNames == {"a1", "a2", "z1", "z2", "z3", "d2", "d3"}

NextProvider ==
  \/ \E c \in Callers, kind \in Kinds, key \in Namespaces \X ObjectNames :
        GetClientCall(c, kind, key)
  \/ \E c \in Callers : ResolveStep(c)
  \/ \E c \in Callers : CacheLookup(c)
  \/ \E c \in Callers : CacheInsert(c)
  \/ \E slot \in EditableSlots, v \in {None} \cup { Some(s) : s \in SecretVariants } :
        EditSecret(slot, v)

SpecProvider == Init /\ [][NextProvider]_vars

\* Token rotation: callers of get_client run while a user replaces the value
\* of a referenced secret by another well-formed token.
RotatedTokens == { Some(SecretWith("token", <<84>>)), Some(SecretWith("token", <<85>>)) }

NextRotation ==
  \/ \E c \in Callers, kind \in Kinds, key \in Namespaces \X ObjectNames :
        GetClientCall(c, kind, key)
  \/ \E c \in Callers : ResolveStep(c)
  \/ \E c \in Callers : CacheLookup(c)
  \/ \E c \in Callers : CacheInsert(c)
  \/ \E slot \in EditableSlots, v \in RotatedTokens : EditSecret(slot, v)

SpecRotation == Init /\ [][NextRotation]_vars

\* Concurrent callers under fair scheduling: every API request of
\* resolve_token is answered, the synchronous section behind the mutex runs
\* on, and the mutex (tokio::sync::Mutex, which queues its waiters) serves
\* every waiter. The providers are those of the two loops run() starts.
ReconciledKinds == {"Zone", "DNSRecord"}

NextCalls ==
  \/ \E c \in Callers, kind \in ReconciledKinds, key \in Namespaces \X ObjectNames :
        GetClientCall(c, kind, key)
  \/ \E c \in Callers : ResolveStep(c)
  \/ \E c \in Callers : CacheLookup(c)
  \/ \E c \in Callers : CacheInsert(c)

FairCalls ==
  \A c \in Callers :
    /\ WF_vars(ResolveStep(c))
    /\ SF_vars(CacheLookup(c))
    /\ WF_vars(CacheInsert(c))

SpecCalls == Init /\ [][NextCalls]_vars /\ FairCalls

\* Zone controller specification: the cluster holds up to MaxZones Zones.
InitZone ==
  /\ InitProvider
  /\ InitEngineIdle
  /\ InitDnsIdle
  /\ InitOperatorIdle
  /\ zmeta \in [ZoneKeys -> {FreshMeta, NoMeta}]
  /\ Cardinality({ z \in ZoneKeys : zmeta[z].exists }) \in 1..MaxZones

NextZone ==
  \/ \E z \in ZoneKeys : ReconcileStart(z)
  \/ \E z \in ZoneKeys : AddFinalizer(z)
  \/ \E z \in ZoneKeys : ApplyCreateZone(z)
  \/ \E z \in ZoneKeys : ApplyPatchStatus(z)
  \/ \E z \in ZoneKeys : CleanupPublish(z)
  \/ \E z \in ZoneKeys : RemoveFinalizer(z)
  \/ \E z \in ZoneKeys : ErrorPolicy(z)
  \/ \E z \in ZoneKeys : UserDeleteZone(z)
  \/ \E a \in AccountKeys, b \in BOOLEAN : AccountStatusPatch(a, b)

SpecZone == InitZone /\ [][NextZone]_vars

\* DNSRecord controller specification: the cluster holds one DNSRecord, of
\* any name and spec of the fixture.
InitDns ==
  /\ InitProvider
  /\ InitEngineIdle
  /\ InitOperatorIdle
  /\ zmeta = [z \in ZoneKeys |-> FreshMeta]
  /\ dspec \in [DnsObjs -> RecordSamples]
  /\ dmeta \in [DnsObjs -> {FreshMeta, NoMeta}]
  /\ Cardinality({ d \in DnsObjs : dmeta[d].exists }) = 1
  /\ \A d \in DnsObjs : ~dmeta[d].exists => dspec[d] = DefaultSpec
  /\ dstatus = [d \in DnsObjs |-> None]
  /\ drec = [d \in DnsObjs |-> IdleDnsRec]
  /\ dnsCalls = {}

NextDns ==
  \/ \E d \in DnsObjs : DnsReconcileStart(d)
  \/ \E d \in DnsObjs : DnsAddFinalizer(d)
  \/ \E d \in DnsObjs : DnsApply(d)
  \/ \E d \in DnsObjs : DnsPatchStatus(d)
  \/ \E d \in DnsObjs : DnsCleanupPublish(d)
  \/ \E d \in DnsObjs : DnsRemoveFinalizer(d)
  \/ \E d \in DnsObjs : DnsErrorPolicy(d)
  \/ \E d \in DnsObjs : UserDeleteRecord(d)

SpecDns == InitDns /\ [][NextDns]_vars

\* ------------------------------------------------------------ lib.rs run()
\* The reconciles of a kind's loop that are in flight.
InFlight(kind) ==
  IF kind = "Zone" THEN { z \in ZoneKeys : rec[z].pc \notin {"idle", "done"} }
  ELSE IF kind = "DNSRecord" THEN { d \in DnsObjs : drec[d].pc \notin {"idle", "done"} }
  ELSE {}

\* the future of a kind's loop is still polled by select!
Polled(kind) == loops[kind] = "running"

\* shutdown_on_signal(): a Controller starts no reconcile once the signal
\* has arrived
Accepting(kind) == Polled(kind) /\ ~shutdown

\* The process receives the shutdown signal; every Controller observes it.
ShutdownSignal ==
  /\ ~shutdown
  /\ \A k \in Kinds : Polled(k)
  /\ shutdown' = TRUE
  /\ UNCHANGED <<loops, faults, provVars, engVars, dnsVars>>

\* tokio::select! over the three run futures: the branch of the first
\* future that completes is taken and the other futures are dropped.
select(k) ==
  [j \in Kinds |-> IF j = k THEN "exited"
                   ELSE IF loops[j] = "running" THEN "dropped" ELSE loops[j]]

\* The run future of kind k completes: after the signal its Controller
\* stream ends once the reconciles it has in flight are finished. select!
\* returns in the same poll, and with it run().
LoopExit(k) ==
  /\ shutdown
  /\ Polled(k)
  /\ InFlight(k) = {}
  /\ loops' = select(k)
  /\ UNCHANGED <<shutdown, faults, provVars, engVars, dnsVars>>

\* the DNSRecord specs of the operator specification
OperatorSamples ==
  { RecordSpec("A", <<"1", "0", ".", "0", ".", "0", ".", "1">>, None),
    RecordSpec("A", <<"2", "5", "6", ".", "0", ".", "0", ".", "1">>, None),
    RecordSpec("MX", <<"m", "x", ".", "b">>, None),
    RecordSpec("SRV", <<"a", ".", "b">>, None) }

\* run() polls the loops of the three kinds; the cluster holds one Zone and
\* one DNSRecord, whose spec is one of samples.
InitLoops(samples) ==
  /\ InitProvider
  /\ InitEngineIdle
  /\ InitOperatorIdle
  /\ zmeta = [z \in ZoneKeys |-> IF z = <<"ns1", "z1">> THEN FreshMeta ELSE NoMeta]
  /\ dmeta = [d \in DnsObjs |-> IF d = <<"ns1", "www">> THEN FreshMeta ELSE NoMeta]
  /\ dspec \in [DnsObjs -> samples \cup {DefaultSpec}]
  /\ \A d \in DnsObjs : (dspec[d] = DefaultSpec) <=> ~dmeta[d].exists
  /\ dstatus = [d \in DnsObjs |-> None]
  /\ drec = [d \in DnsObjs |-> IdleDnsRec]
  /\ dnsCalls = {}

\* Operator specification.
InitOperator == InitLoops(OperatorSamples)

NextOperator ==
  \/ \E d \in DnsObjs : Accepting("DNSRecord") /\ DnsReconcileStart(d)
  \/ \E d \in DnsObjs : Polled("DNSRecord") /\ DnsAddFinalizer(d)
  \/ \E d \in DnsObjs : Polled("DNSRecord") /\ DnsApply(d)
  \/ \E d \in DnsObjs : Polled("DNSRecord") /\ DnsPatchStatus(d)
  \/ \E d \in DnsObjs : Polled("DNSRecord") /\ DnsCleanupPublish(d)
  \/ \E d \in DnsObjs : Polled("DNSRecord") /\ DnsRemoveFinalizer(d)
  \/ \E d \in DnsObjs : Polled("DNSRecord") /\ DnsErrorPolicy(d)
  \/ \E z \in ZoneKeys : Accepting("Zone") /\ ReconcileStart(z)
  \/ \E z \in ZoneKeys : Polled("Zone") /\ AddFinalizer(z)
  \/ \E z \in ZoneKeys : Polled("Zone") /\ ApplyCreateZone(z)
  \/ \E z \in ZoneKeys : Polled("Zone") /\ ApplyPatchStatus(z)
  \/ \E z \in ZoneKeys : Polled("Zone") /\ CleanupPublish(z)
  \/ \E z \in ZoneKeys : Polled("Zone") /\ RemoveFinalizer(z)
  \/ \E z \in ZoneKeys : Polled("Zone") /\ ErrorPolicy(z)
  \/ \E d \in DnsObjs : UserDeleteRecord(d)
  \/ \E z \in ZoneKeys : UserDeleteZone(z)
  \/ ShutdownSignal
  \/ \E k \in Kinds : LoopExit(k)

SpecOperator == InitOperator /\ [][NextOperator]_vars

\* ---------------------------------------------------- requeue and recovery
\* The API server and Cloudflare stop failing.
FaultsEnd ==
  /\ faults
  /\ faults' = FALSE
  /\ UNCHANGED <<loops, shutdown, provVars, engVars, dnsVars>>

\* What makes Controller::run hand an object to the reconciler again: the
\* object has not been reconciled yet, the Action of its last reconcile was
\* a requeue, or that reconcile changed the object (it added the finalizer)
\* and the watcher reports the change.
DnsTriggered(d) ==
  \/ drec[d].pc = "idle"
  \/ drec[d].action.kind = "requeue"
  \/ drec[d].event = "add_finalizer" /\ dmeta[d].finalizer

ZoneTriggered(z) ==
  \/ rec[z].pc = "idle"
  \/ rec[z].action.kind = "requeue"
  \/ rec[z].action = AwaitChange /\ zmeta[z].finalizer /\ zstatus[z] = None

\* the steps of the DNSRecord loop for an object nobody deletes
DnsLoopStep(d) ==
  \/ DnsTriggered(d) /\ DnsReconcileStart(d)
  \/ DnsAddFinalizer(d)
  \/ DnsApply(d)
  \/ DnsPatchStatus(d)
  \/ DnsErrorPolicy(d)

\* the steps of the Zone loop for an object nobody deletes
ZoneLoopStep(z) ==
  \/ ZoneTriggered(z) /\ ReconcileStart(z)
  \/ AddFinalizer(z)
  \/ ApplyCreateZone(z)
  \/ ApplyPatchStatus(z)
  \/ ErrorPolicy(z)

\* Recovery specification: one Zone and one DNSRecord that nobody edits or
\* deletes; requests fail until the APIs recover. Each loop keeps running
\* the reconciles it has in flight and fires the requeues it scheduled.
HealSamples ==
  { RecordSpec("CNAME", <<"a", ".", "b">>, None),
    RecordSpec("MX", <<"m", "x", ".", "b">>, None),
    RecordSpec("SRV", <<"a", ".", "b">>, None) }

InitHeal == InitLoops(HealSamples)

NextHeal ==
  \/ \E d \in DnsObjs : DnsLoopStep(d)
  \/ \E z \in ZoneKeys : ZoneLoopStep(z)
  \/ FaultsEnd

SpecHeal ==
  /\ InitHeal
  /\ [][NextHeal]_vars
  /\ WF_vars(\E d \in DnsObjs : DnsLoopStep(d))
  /\ WF_vars(\E z \in ZoneKeys : ZoneLoopStep(z))

\* ====================================================================
\* Properties
\* ====================================================================

\* UTF-8 encoding of a sequence of code points (the inverse of from_utf8).
RECURSIVE Utf8Encode(_)
Utf8Encode(cps) ==
  IF cps = <<>> THEN <<>>
  ELSE
    LET cp == Head(cps)
        enc == IF cp < 128 THEN <<cp>>
               ELSE IF cp < 2048 THEN <<192 + (cp \div 64), 128 + (cp % 64)>>
               ELSE IF cp < 65536
                    THEN <<224 + (cp \div 4096), 128 + ((cp \div 64) % 64), 128 + (cp % 64)>>
               ELSE <<240 + (cp \div 262144), 128 + ((cp \div 4096) % 64),
                      128 + ((cp \div 64) % 64), 128 + (cp % 64)>>
    IN  enc \o Utf8Encode(Tail(cps))

\* the bytes the API server holds for a secret reference, if any
StoredBytes(ns, ref) ==
  LET got == GetSecret(ns, ref.name)
  IN  IF got = None THEN None
      ELSE IF Unwrap(got).data = None THEN None
      ELSE IF ref.key \notin DOMAIN Unwrap(Unwrap(got).data) THEN None
      ELSE Some(Unwrap(Unwrap(got).data)[ref.key])

\* steps of a get_client call
CallStarts == ncalls' = ncalls + 1
TokenResolved(c) == call[c].pc \in {"idle", "resolve"} /\ call'[c].pc = "lock"

\* C1: a Zone with an account reference and no direct secret reference
\* resolves to the token of its Account: the Account's secret value when the
\* Account has a secret reference, the default token only when it has none.
C1_ZoneResolvesThroughAccount ==
  [][\A c \in Callers :
       LET k == <<call'[c].ns, call'[c].obj>>
       IN  ( /\ TokenResolved(c)
             /\ call'[c].kind = "Zone"
             /\ ZoneSpecs[k].secret_ref = None
             /\ ZoneSpecs[k].account_ref # None
             /\ <<k[1], Unwrap(ZoneSpecs[k].account_ref)>> \in AccountKeys )
           => LET acc == AccountSpecs[<<k[1], Unwrap(ZoneSpecs[k].account_ref)>>]
              IN  IF acc.secret_ref = None
                  THEN call'[c].token = default_token
                  ELSE StoredBytes(k[1], Unwrap(acc.secret_ref))
                         = Some(Utf8Encode(call'[c].token))
    ]_vars

\* C2: for a resource carrying only a direct secret reference, a resolved
\* token is exactly the UTF-8 decoding of the bytes stored under the
\* referenced key of the named secret in the resource's namespace, and the
\* call fails with SecretNotFound(name) when that secret is absent.
SecretOnly(kind, ns, obj) ==
  LET refs == ResourceRefs(kind, ns, obj)
  IN  refs.secret_ref # None /\ refs.zone_ref = None /\ refs.account_ref = None

SecretRefOf(kind, ns, obj) == Unwrap(ResourceRefs(kind, ns, obj).secret_ref)

C2_DirectSecretResolves ==
  [][CallStarts =>
       IF call' = call
       THEN \* the call returned an error at once
            SecretOnly(last'.kind, last'.ns, last'.obj) =>
              LET ref == SecretRefOf(last'.kind, last'.ns, last'.obj)
              IN  /\ ~last'.result.ok
                  /\ GetSecret(last'.ns, ref.name) = None =>
                       last'.result = Err("SecretNotFound", ref.name)
       ELSE \A c \in Callers :
              (call'[c] # call[c] /\ SecretOnly(call'[c].kind, call'[c].ns, call'[c].obj)) =>
                LET ref == SecretRefOf(call'[c].kind, call'[c].ns, call'[c].obj)
                IN  /\ call'[c].pc = "lock"
                    /\ StoredBytes(call'[c].ns, ref) = Some(Utf8Encode(call'[c].token))
    ]_vars

\* C2 witness: a secret-only resource has resolved a two-byte encoded token
\* after another one got SecretNotFound for a deleted secret.
C2_Witness ==
  \E c \in Callers :
    /\ call[c].pc = "lock" /\ call[c].token = <<233>>
    /\ SecretOnly(call[c].kind, call[c].ns, call[c].obj)
    /\ last.result = Err("SecretNotFound", "s1")
    /\ SecretOnly(last.kind, last.ns, last.obj)
    /\ secrets[<<"ns1", "s1">>] = None

\* C3: every create request reaching Cloudflare for an object carries the
\* token resolved from that object's own reference chain.
C3_CallsUseResolvedToken ==
  \A q \in cfCalls :
    LET r == resolve_token(ZoneRefs(ZoneSpecs[q.zone]), q.zone[1])
    IN  r.ok /\ q.token = r.val

\* C4: handles returned by one cache are the same instance exactly when
\* they were requested with the same token.
C4_SameTokenSameClient ==
  \A h1, h2 \in returned :
    h1.kind = h2.kind => ((h1.token = h2.token) <=> (h1.client = h2.client))

\* C4 witness: a call hit the cached instance of its token in a cache that
\* also served and holds a client of another token.
C4_Witness ==
  /\ last.hit /\ last.result.ok
  /\ \E e \in cache[last.kind] : e.token # last.token
  /\ \E h \in returned : h.kind = last.kind /\ h.token # last.token
  /\ \E h \in returned : h.kind = last.kind /\ h.token = last.token

\* C5: under every interleaving at most one client is ever constructed per
\* token of a cache, the mutex has one holder running the
\* lookup-construct-insert section, and every caller that obtained a handle
\* holds that one instance.
C5_OneConstructionPerToken ==
  /\ \A cl1, cl2 \in clients :
       (cl1.kind = cl2.kind /\ cl1.token = cl2.token) => cl1 = cl2
  /\ \A c, d \in Callers :
       (c # d /\ call[c].kind = call[d].kind) =>
         ~(call[c].pc = "insert" /\ call[d].pc = "insert")
  /\ \A h \in returned : Constructed(h.kind, h.token) = {h.client}

\* C5 witness: two calls with the same token, unseen by their cache, are in
\* flight together: one constructed the client and is about to insert it,
\* the other waits for the mutex.
C5_Witness ==
  \E c, d \in Callers :
    /\ c # d
    /\ call[c].kind = call[d].kind /\ call[c].token = call[d].token
    /\ call[c].pc = "insert" /\ call[d].pc = "lock"
    /\ cache_get(call[c].kind, call[c].token) = None

\* C6: the process holds at most one client per distinct token, whichever
\* kind's loop resolved it.
C6_OneClientPerTokenInProcess ==
  \A cl1, cl2 \in clients : cl1.token = cl2.token => cl1 = cl2

\* steps of Zone::reconcile
IssuesCreateZone(z) == rec[z].pc = "apply" /\ rec'[z].pc = "patch"
ApplyReturnsOk(z) == rec[z].pc \in {"apply", "patch"} /\ rec'[z].pc = "done"
AccountName(z) == Unwrap(ZoneSpecs[z].account_ref)
Status(ready, id, error) == Some([ready |-> ready, id |-> id, error |-> error])

\* C7: applying a Zone whose Account exists with ready=false writes
\* ready=false with "dependency account/<name> is not ready", requeues after
\* 60 seconds and sends no create-zone request.
C7_AccountNotReadyGate ==
  [][\A z \in ZoneKeys :
       AccountState(z) = "notready" =>
         /\ ~IssuesCreateZone(z)
         /\ ApplyReturnsOk(z) =>
              /\ zstatus'[z] = Status(FALSE, None,
                     Some(<<"dependency account/", AccountName(z), " is not ready">>))
              /\ rec'[z].action = Requeue(60)
    ]_vars

\* C8: applying a Zone whose Account does not exist writes ready=false with
\* "dependency account/<name> not found", requeues after 30 seconds and
\* sends no create-zone request.
C8_AccountMissingGate ==
  [][\A z \in ZoneKeys :
       AccountState(z) = "missing" =>
         /\ ~IssuesCreateZone(z)
         /\ ApplyReturnsOk(z) =>
              /\ zstatus'[z] = Status(FALSE, None,
                     Some(<<"dependency account/", AccountName(z), " not found">>))
              /\ rec'[z].action = Requeue(30)
    ]_vars

\* C9: with a ready Account, a failed create-zone call yields ready=false
\* with the failure message in status.error and a requeue after 60 seconds.
C9_CreateFailureStatus ==
  [][\A z \in ZoneKeys :
       ( /\ AccountState(z) = "ready"
         /\ rec[z].pc = "patch" /\ ~rec[z].created.ok
         /\ rec'[z].pc = "done" )
       => /\ zstatus'[z] = Status(FALSE, None,
                 Some(<<rec[z].created.err, rec[z].created.arg>>))
          /\ rec'[z].action = Requeue(60)
    ]_vars

\* C10: with a ready Account, a successful create-zone call yields
\* ready=true with status.id the identifier returned by the call, and a
\* requeue after 300 seconds.
C10_CreateSuccessStatus ==
  [][\A z \in ZoneKeys :
       ( /\ AccountState(z) = "ready"
         /\ rec[z].pc = "patch" /\ rec[z].created.ok
         /\ rec'[z].pc = "done" )
       => /\ zstatus'[z] = Status(TRUE, Some(rec[z].created.val), None)
          /\ rec'[z].action = Requeue(300)
    ]_vars

\* steps of the DNSRecord controller
DnsStarts(d) == drec[d].pc \in {"idle", "done"} /\ drec'[d] # drec[d]
DnsApplyActs(d) == drec[d].pc = "apply" /\ drec'[d] # drec[d]
DnsStatusWritten(d) == dstatus'[d] # dstatus[d] /\ dstatus'[d] # None
FailedApplyReturns(d) ==
  drec[d].pc = "failed" /\ drec[d].event = "apply" /\ drec'[d].pc = "done"
Legal(d) == d[2] # "illegal"

\* C11: Apply logic runs only for an object that carries the finalizer: no
\* step of Apply, no create request and no status patch happens for a
\* DNSRecord whose finalizer is absent.
C11_FinalizerBeforeApply ==
  [][\A d \in DnsObjs :
       ( \/ drec[d].pc \in {"apply", "patch"} /\ drec'[d] # drec[d]
         \/ \E q \in dnsCalls' \ dnsCalls : q.rec = d
         \/ DnsStatusWritten(d) )
       => dmeta[d].finalizer
    ]_vars

\* C11 witness: a record created without the finalizer has acquired it and
\* its Apply has sent the create request.
C11_Witness ==
  \E d \in DnsObjs :
    /\ dmeta[d].finalizer /\ drec[d].pc = "patch"
    /\ \E q \in dnsCalls : q.rec = d

\* C12: a DNSRecord with deletion timestamp and finalizer is dispatched to
\* Cleanup; the finalizer is removed only after Cleanup published the event;
\* a failed publication leaves the finalizer in place, fails the reconcile
\* and error_policy requeues it.
C12_CleanupBeforeFinalizerRemoval ==
  [][\A d \in DnsObjs :
       /\ (DnsStarts(d) /\ dmeta[d].finalizer /\ dmeta[d].deleting) => drec'[d].pc = "cleanup"
       /\ (dmeta[d].finalizer /\ ~dmeta'[d].finalizer) => drec[d].cleanup = "ok"
       /\ (drec[d].pc = "cleanup" /\ drec'[d].cleanup = "err") =>
             (dmeta'[d].finalizer /\ drec'[d].pc = "failed")
       /\ (drec[d].pc = "failed" /\ drec[d].event = "cleanup" /\ drec'[d] # drec[d]) =>
             (dmeta'[d].finalizer /\ drec'[d].action = Requeue(300))
    ]_vars

\* C12 witness: a record was removed after its Cleanup published the event.
C12_Witness ==
  \E d \in DnsObjs :
    /\ ~dmeta[d].exists /\ ~dmeta[d].finalizer /\ dmeta[d].deleting
    /\ drec[d].event = "cleanup" /\ drec[d].cleanup = "ok" /\ drec[d].pc = "done"

\* C13: when an Apply fails, the reconcile leaves a status with ready=false
\* and a bounded requeue.
C13_ApplyFailureWritesStatus ==
  [][\A d \in DnsObjs :
       FailedApplyReturns(d) =>
         /\ dstatus'[d] # None
         /\ ~Unwrap(dstatus'[d]).ready
         /\ drec'[d].action.kind = "requeue"
    ]_vars

\* C14: after every Apply, successful or failed, the status is the outcome
\* of that attempt alone.
C14_StatusIsLastAttempt ==
  [][\A d \in DnsObjs :
       ( /\ drec[d].event = "apply" /\ drec'[d].pc = "done"
         /\ \/ drec[d].pc = "patch"
            \/ drec[d].pc = "failed" /\ drec[d].error.err # "KubeError" )
       => dstatus'[d] = Some(IF drec[d].pc = "patch" THEN new_dns_status(drec[d].created)
                                                    ELSE DNSRecordStatus(FALSE, None))
    ]_vars

\* C15: an Apply of an unchanged Zone that an earlier Apply created and
\* reported ready neither creates a further external zone nor changes the
\* status.
C15_ApplyIdempotent ==
  [][\A z \in ZoneKeys :
       ( /\ \E q \in cfCalls : q.zone = z /\ q.ok
         /\ zstatus[z] = Some(new_status(Ok(<<>>))) )
       => /\ ~(rec[z].pc = "apply" /\ rec'[z].pc = "patch" /\ rec'[z].created.ok)
          /\ (rec[z].pc = "patch" /\ rec'[z].pc = "done") => zstatus'[z] = zstatus[z]
    ]_vars

\* C16: Apply of a DNSRecord named "illegal" fails with IllegalDocument
\* whatever its spec, sends no request and patches no status.
C16_IllegalNameAlwaysFails ==
  [][\A d \in DnsObjs :
       ~Legal(d) =>
         /\ DnsApplyActs(d) =>
              /\ drec'[d].pc = "failed"
              /\ drec'[d].error = Err("IllegalDocument", "")
         /\ \A q \in dnsCalls' : q.rec # d
         /\ dstatus'[d] = None
    ]_vars

\* C16 witness: the Apply of an "illegal" record with a valid A spec failed.
C16_Witness ==
  \E d \in DnsObjs :
    /\ ~Legal(d) /\ drec[d].event = "apply" /\ drec[d].pc = "done"
    /\ drec[d].error = Err("IllegalDocument", "")
    /\ dspec[d].record_type = "A" /\ dspec[d].content = <<"1", "0", ".", "0", ".", "0", ".", "1">>

\* decimal text of a number, dotted text of an IPv4 address
RECURSIVE DecChars(_)
DecChars(n) == IF n < 10 THEN <<Digits[n + 1]>> ELSE DecChars(n \div 10) \o <<Digits[(n % 10) + 1]>>
Ipv4Display(a) ==
  DecChars(a[1]) \o <<".">> \o DecChars(a[2]) \o <<".">> \o DecChars(a[3]) \o <<".">> \o DecChars(a[4])

\* the address literals among the contents of the fixture, with their value
AddressLiterals ==
  { [type |-> "A", content |-> <<"1", "0", ".", "0", ".", "0", ".", "1">>, addr |-> <<10, 0, 0, 1>>],
    [type |-> "AAAA", content |-> <<":", ":", "1">>, addr |-> <<0, 0, 0, 0, 0, 0, 0, 1>>],
    [type |-> "AAAA", content |-> <<"2", "0", "0", "1", ":", "d", "b", "8", ":", ":", "1">>,
     addr |-> <<8193, 3512, 0, 0, 0, 0, 0, 1>>],
    [type |-> "AAAA", content |-> <<":", ":", "f", "f", "f", "f", ":", "1", ".", "2", ".", "3", ".", "4">>,
     addr |-> <<0, 0, 0, 0, 0, 65535, 258, 772>>] }

LiteralOf(spec) ==
  { l \in AddressLiterals : l.type = spec.record_type /\ l.content = spec.content }

\* C17: Apply of an A or AAAA record whose content is an address literal of
\* the record's family sends the create request with exactly that address;
\* for any other content it fails with InvalidIpAddress, sends no request
\* and patches no status.
C17_AddressContentParsed ==
  [][\A d \in DnsObjs :
       (Legal(d) /\ dspec[d].record_type \in {"A", "AAAA"} /\ DnsApplyActs(d)) =>
         IF LiteralOf(dspec[d]) # {}
         THEN /\ drec'[d].pc = "patch" \/ drec'[d].error.err = "CloudflareApiError"
              /\ \E q \in dnsCalls' :
                    /\ q.rec = d /\ q.content.type = dspec[d].record_type
                    /\ q.content.addr = (CHOOSE l \in LiteralOf(dspec[d]) : TRUE).addr
                    /\ q.content.type = "A" => Ipv4Display(q.content.addr) = dspec[d].content
              /\ \A q \in dnsCalls' :
                    q.rec = d => q.content.addr = (CHOOSE l \in LiteralOf(dspec[d]) : TRUE).addr
         ELSE /\ drec'[d].pc = "failed"
              /\ drec'[d].error = Err("InvalidIpAddress", "")
              /\ dnsCalls' = dnsCalls
              /\ dstatus' = dstatus
    ]_vars

\* C17 witness: the A record 10.0.0.1 was created with the parsed address
\* and reported ready.
C17_Witness ==
  \E d \in DnsObjs :
    /\ dspec[d].record_type = "A" /\ drec[d].pc = "done" /\ drec[d].event = "apply"
    /\ dstatus[d] # None /\ Unwrap(dstatus[d]).ready
    /\ \E q \in dnsCalls : q.rec = d /\ q.ok /\ q.content.addr = <<10, 0, 0, 1>>

SupportedTypes == {"A", "AAAA", "CNAME", "MX", "TXT"}

\* C18: Apply of a record whose type is outside {A, AAAA, CNAME, MX, TXT}
\* fails with UnsupportedRecordType(type) without a create request, and
\* error_policy requeues the object after 300 seconds.
C18_UnsupportedTypeRequeued ==
  [][\A d \in DnsObjs :
       (Legal(d) /\ dspec[d].record_type \notin SupportedTypes) =>
         /\ DnsApplyActs(d) =>
              /\ drec'[d].pc = "failed"
              /\ drec'[d].error = Err("UnsupportedRecordType", dspec[d].record_type)
         /\ \A q \in dnsCalls' : q.rec # d
         /\ FailedApplyReturns(d) => drec'[d].action = Requeue(300)
    ]_vars

\* C18 witness: a record of type SRV failed and was requeued.
C18_Witness ==
  \E d \in DnsObjs :
    /\ dspec[d].record_type = "SRV" /\ drec[d].pc = "done"
    /\ drec[d].error = Err("UnsupportedRecordType", "SRV")
    /\ drec[d].action = Requeue(300)

\* C19: every create request for an MX record carries priority 10 when the
\* spec leaves priority unset and the set value otherwise, in the record
\* content and in the request parameters wherever a priority is present.
C19_MxPriorityDefault ==
  \A q \in dnsCalls :
    q.content.type = "MX" =>
      LET want == IF dspec[q.rec].priority = None THEN 10 ELSE Unwrap(dspec[q.rec].priority)
      IN  /\ q.content.priority = Some(want)
          /\ q.priority \subseteq {want}
          /\ dspec[q.rec].priority # None => q.priority = Some(want)

\* C19 witness: an MX record without priority was sent with priority 10.
C19_Witness ==
  \E q \in dnsCalls :
    /\ q.content.type = "MX" /\ dspec[q.rec].priority = None
    /\ q.content.priority = Some(10)

C21_RunEndsAfterAllLoops ==
  /\ \A k \in Kinds : loops[k] # "dropped"
  /\ (\E k \in Kinds : loops[k] = "exited") => InFlight("Zone") \cup InFlight("DNSRecord") = {}

\* a resource whose spec holds no reference at all
Unreferenced(kind, ns, obj) ==
  \/ kind = "Account" /\ <<ns, obj>> \in AccountKeys
       /\ AccountSpecs[<<ns, obj>>].secret_ref = None
  \/ kind = "Zone" /\ <<ns, obj>> \in ZoneKeys
       /\ ZoneSpecs[<<ns, obj>>].secret_ref = None
       /\ ZoneSpecs[<<ns, obj>>].account_ref = None

\* C22: a resource with no secret, zone or account reference resolves to
\* the default token at once: its call never waits for a parent lookup and
\* never returns a lookup error, whatever the API server answers.
C22_NoReferenceDefaultToken ==
  /\ \A c \in Callers :
       (call[c].pc # "idle" /\ Unreferenced(call[c].kind, call[c].ns, call[c].obj)) =>
         /\ call[c].pc \in {"lock", "insert"}
         /\ call[c].token = default_token
  /\ (last # NoOutcome /\ Unreferenced(last.kind, last.ns, last.obj)) =>
       /\ last.token = default_token
       /\ last.result.ok \/ last.result.err = "ClientCreation"

\* C22 witness: an Account without secret reference was handed the client
\* of the default token.
C22_Witness ==
  /\ last.result.ok /\ Unreferenced(last.kind, last.ns, last.obj)
  /\ last.token = default_token /\ last.kind = "Account"

\* C23: a call whose client construction fails returns ClientCreation and
\* leaves the cache as it was, without an entry for the token, with the
\* mutex free and no client constructed; a call with the same token that
\* follows finds no entry and constructs again.
C23_FailedConstructionNotCached ==
  [][last'.result.err = "ClientCreation" =>
       /\ ~last'.result.ok
       /\ cache' = cache
       /\ \A e \in cache'[last'.kind] : e.token # last'.token
       /\ lock'[last'.kind] = 0
       /\ clients' = clients /\ returned' = returned
    ]_vars

\* C23 witness: a construction failed for a token while another call with
\* the same token waits for the cache, which holds no entry for it.
C23_Witness ==
  /\ last.result.err = "ClientCreation"
  /\ \E c \in Callers :
       /\ call[c].pc = "lock" /\ call[c].kind = last.kind /\ call[c].token = last.token
       /\ cache_get(call[c].kind, call[c].token) = None
  /\ lock[last.kind] = 0

\* the secret reference held by the spec of a resource, if any
SpecSecretRef(kind, ns, obj) ==
  IF kind = "Account" /\ <<ns, obj>> \in AccountKeys THEN AccountSpecs[<<ns, obj>>].secret_ref
  ELSE IF kind = "Zone" /\ <<ns, obj>> \in ZoneKeys THEN ZoneSpecs[<<ns, obj>>].secret_ref
  ELSE None

\* every combination of references a resource can present
RefCombos ==
  [secret_ref : {None, Some(SecretSel("s1", "token"))},
   zone_ref : {None, Some("z1")},
   account_ref : {None, Some("a1")}]

\* C24: a resource with a secret reference is resolved by fetching that
\* secret alone, whatever other references it holds: its call resolves in
\* its first step to the value stored for the reference or returns the
\* error of the fetch, without a parent lookup; without a secret reference,
\* a zone reference is followed before an account reference.
C24_SecretReferenceFirst ==
  [][/\ \A r \in RefCombos :
          /\ r.secret_ref # None => resolve_branch(r) = "secret"
          /\ (r.secret_ref = None /\ r.zone_ref # None) => resolve_branch(r) = "zone"
     /\ CallStarts =>
          IF call' = call
          THEN SpecSecretRef(last'.kind, last'.ns, last'.obj) # None =>
                 LET ref == Unwrap(SpecSecretRef(last'.kind, last'.ns, last'.obj))
                 IN  /\ ~last'.result.ok
                     /\ last'.result \in { Err("SecretNotFound", ref.name),
                                            fetch_secret(ref, last'.ns, TRUE) }
          ELSE \A c \in Callers :
                 ( /\ call'[c] # call[c]
                   /\ SpecSecretRef(call'[c].kind, call'[c].ns, call'[c].obj) # None ) =>
                   LET ref == Unwrap(SpecSecretRef(call'[c].kind, call'[c].ns, call'[c].obj))
                   IN  /\ call'[c].pc = "lock"
                       /\ StoredBytes(call'[c].ns, ref) = Some(Utf8Encode(call'[c].token))
    ]_vars

\* C24 witness: Zone ns1/z2, which holds a secret reference and an account
\* reference, resolved the value of its secret.
C24_Witness ==
  \E c \in Callers :
    /\ call[c].pc = "lock" /\ call[c].kind = "Zone" /\ call[c].obj = "z2"
    /\ ZoneSpecs[<<"ns1", "z2">>].account_ref # None
    /\ call[c].token = <<84>>

\* the NotFound error due for a resource whose spec references a Zone or
\* an Account that does not exist in its namespace, if it references one
MissingParent(kind, ns, obj) ==
  IF kind = "DNSRecord" /\ <<ns, obj>> \in DNSRecordKeys
  THEN LET z == <<ns, DNSRecordSpecs[<<ns, obj>>].zone_ref>>
       IN  IF z \in ZoneKeys /\ zmeta[z].exists THEN None
           ELSE Some(Err("ZoneNotFound", z[2]))
  ELSE IF /\ kind = "Zone" /\ <<ns, obj>> \in ZoneKeys
          /\ ZoneSpecs[<<ns, obj>>].secret_ref = None
          /\ ZoneSpecs[<<ns, obj>>].account_ref # None
  THEN LET a == <<ns, Unwrap(ZoneSpecs[<<ns, obj>>].account_ref)>>
       IN  IF a \in AccountKeys THEN None ELSE Some(Err("AccountNotFound", a[2]))
  ELSE None

\* C25: a resource that references a missing Zone or Account gets the
\* NotFound error of that kind with the missing name, and never a token or
\* a client.
C25_MissingParentNotFound ==
  /\ \A c \in Callers :
       call[c].pc \in {"lock", "insert"} =>
         MissingParent(call[c].kind, call[c].ns, call[c].obj) = None
  /\ (last # NoOutcome /\ MissingParent(last.kind, last.ns, last.obj) # None) =>
       last.result = Unwrap(MissingParent(last.kind, last.ns, last.obj))

\* every secret reference of the fixture, with the namespace it is read in
FixtureSecretRefs ==
  { <<k[1], Unwrap(AccountSpecs[k].secret_ref)>> :
      k \in { a \in AccountKeys : AccountSpecs[a].secret_ref # None } }
  \cup { <<k[1], Unwrap(ZoneSpecs[k].secret_ref)>> :
      k \in { z \in ZoneKeys : ZoneSpecs[z].secret_ref # None } }

\* the secret reference a call for a resource ends up fetching, if any: its
\* own, or for a DNSRecord that of its Zone
FetchedRef(kind, ns, obj) ==
  IF SpecSecretRef(kind, ns, obj) # None THEN SpecSecretRef(kind, ns, obj)
  ELSE IF /\ kind = "DNSRecord" /\ <<ns, obj>> \in DNSRecordKeys
          /\ <<ns, DNSRecordSpecs[<<ns, obj>>].zone_ref>> \in ZoneKeys
  THEN ZoneSpecs[<<ns, DNSRecordSpecs[<<ns, obj>>].zone_ref>>].secret_ref
  ELSE None

\* the byte strings of the fixture that are not UTF-8 (a lead byte without
\* its continuation byte)
IllFormed == { <<195, 40>> }

\* C26: fetching a secret reference whose secret exists yields
\* SecretKeyMissing(key) when the key is absent from the data or there is no
\* data map, TokenEncoding when the bytes at the key are not UTF-8, and
\* otherwise the token that encodes to those bytes; and a call returns
\* SecretKeyMissing or TokenEncoding only in those cases.
C26_SecretFetchOutcomes ==
  /\ \A p \in FixtureSecretRefs :
       LET r == fetch_secret(p[2], p[1], TRUE)
           bytes == StoredBytes(p[1], p[2])
       IN  GetSecret(p[1], p[2].name) # None =>
             IF bytes = None THEN r = Err("SecretKeyMissing", p[2].key)
             ELSE IF Unwrap(bytes) \in IllFormed THEN r = Err("TokenEncoding", "")
             ELSE r.ok /\ Utf8Encode(r.val) = Unwrap(bytes)
  /\ last.result.err \in {"SecretKeyMissing", "TokenEncoding"} =>
       LET f == FetchedRef(last.kind, last.ns, last.obj)
       IN  /\ f # None
           /\ GetSecret(last.ns, Unwrap(f).name) # None
           /\ IF last.result.err = "SecretKeyMissing"
              THEN /\ last.result.arg = Unwrap(f).key
                   /\ StoredBytes(last.ns, Unwrap(f)) = None
              ELSE /\ StoredBytes(last.ns, Unwrap(f)) # None
                   /\ Unwrap(StoredBytes(last.ns, Unwrap(f))) \in IllFormed

\* C26 witness: a call returned SecretKeyMissing for a secret that has no
\* data map.
C26_Witness ==
  /\ last.result = Err("SecretKeyMissing", "token")
  /\ secrets[<<"ns1", "s1">>] = Some(SecretNoData)

\* C27: a call returns SecretNotFound only when the secret it fetched is
\* absent from the namespace; a failed lookup request is reported otherwise.
C27_SecretNotFoundOnlyWhenAbsent ==
  last.result.err = "SecretNotFound" =>
    LET f == FetchedRef(last.kind, last.ns, last.obj)
    IN  /\ f # None
        /\ last.result.arg = Unwrap(f).name
        /\ GetSecret(last.ns, Unwrap(f).name) = None

\* C28: every reconcile that ends in an error, whatever the error, is
\* handed to error_policy and leaves the object with a requeue after 300
\* seconds, its loop still running: every error raised by a step fails the
\* reconcile, and a failed reconcile ends requeued.
C28_EveryErrorRequeued ==
  [][/\ \A d \in DnsObjs :
          /\ (drec'[d].error # drec[d].error /\ drec'[d].error # NoResult) =>
                drec'[d].pc = "failed"
          /\ (drec[d].pc = "failed" /\ drec'[d] # drec[d]) =>
                /\ drec'[d].pc = "done" /\ drec'[d].action = Requeue(300)
                /\ loops' = loops
          /\ (drec'[d].pc = "done" /\ drec'[d].error # NoResult) =>
                drec'[d].action = Requeue(300)
     /\ \A z \in ZoneKeys :
          /\ (rec'[z].err # rec[z].err /\ rec'[z].err # "") => rec'[z].pc = "failed"
          /\ (rec[z].pc = "failed" /\ rec'[z] # rec[z]) =>
                /\ rec'[z].pc = "done" /\ rec'[z].action = Requeue(300)
                /\ loops' = loops
          /\ (rec'[z].pc = "done" /\ rec'[z].err # "") => rec'[z].action = Requeue(300)
    ]_vars

\* C28 witness: a DNSRecord whose create request failed and a Zone whose
\* cleanup failed are both requeued after 300 seconds.
C28_Witness ==
  /\ \E d \in DnsObjs :
       /\ drec[d].pc = "done" /\ drec[d].error.err = "CloudflareApiError"
       /\ drec[d].action = Requeue(300)
  /\ \E z \in ZoneKeys :
       /\ rec[z].pc = "done" /\ rec[z].err = "CleanupFailed(KubeError)"
       /\ rec[z].action = Requeue(300)

\* C30: an Apply that succeeds returns a requeue after exactly 300 seconds,
\* for a DNSRecord and for a Zone.
C30_SuccessRequeuesFiveMinutes ==
  [][/\ \A d \in DnsObjs :
          /\ (drec[d].pc = "patch" /\ drec'[d].pc = "done") =>
                drec'[d].action = Requeue(300)
          /\ (drec'[d].pc = "done" /\ drec'[d].event = "apply" /\ drec'[d].error = NoResult) =>
                drec'[d].action = Requeue(300)
     /\ \A z \in ZoneKeys :
          (rec[z].pc = "patch" /\ rec'[z].pc = "done") => rec'[z].action = Requeue(300)
    ]_vars

\* C30 witness: a DNSRecord and a Zone have both been applied with success
\* and are requeued after 300 seconds.
C30_Witness ==
  /\ \E d \in DnsObjs :
       /\ drec[d].pc = "done" /\ drec[d].event = "apply" /\ drec[d].error = NoResult
       /\ dstatus[d] # None /\ drec[d].action = Requeue(300)
  /\ \E z \in ZoneKeys :
       /\ rec[z].pc = "done" /\ rec[z].err = "" /\ zstatus[z] # None
       /\ rec[z].action = Requeue(300)

\* the specs of the fixture that Apply accepts
ValidSpecs ==
  { RecordSpec("CNAME", <<"a", ".", "b">>, None),
    RecordSpec("MX", <<"m", "x", ".", "b">>, None) }

DnsReady(d) == dstatus[d] # None /\ Unwrap(dstatus[d]).ready
ZoneReady(z) == zstatus[z] # None /\ Unwrap(zstatus[z]).ready

\* C29: once no request to the API server or to Cloudflare fails any more
\* (faults ended, and they never come back), every Zone and every DNSRecord
\* with a valid spec eventually has status ready=true, with no edit of the
\* object.
AllReady ==
  /\ \A d \in DnsObjs :
       (dmeta[d].exists /\ Legal(d) /\ dspec[d] \in ValidSpecs) => DnsReady(d)
  /\ \A z \in ZoneKeys : zmeta[z].exists => ZoneReady(z)

C29_TransientFailuresHeal == (~faults) ~> AllReady

\* C29 witness: after a failed create request of each kind and the end of
\* the failures, the DNSRecord and the Zone are ready.
C29_Witness ==
  /\ ~faults
  /\ \E q \in dnsCalls : ~q.ok
  /\ \E q \in cfCalls : ~q.ok
  /\ \E d \in DnsObjs : dmeta[d].exists /\ dspec[d] \in ValidSpecs /\ DnsReady(d)
  /\ \E z \in ZoneKeys : zmeta[z].exists /\ ZoneReady(z)

\* C31: Cleanup does no Cloudflare-side teardown. In the step in which
\* cleanup of a DNSRecord or of a Zone runs, Cloudflare receives no request,
\* no status and no metadata of any object changes, and the reconcile has
\* handed exactly one event to the recorder: reason DeleteRequested, about
\* that object.
CleanupRuns(r) == r.pc = "cleanup"
OnlyDeleteRequested(r, kind, key) ==
  /\ Len(r.events) = 1
  /\ r.events[1].event.reason = "DeleteRequested"
  /\ r.events[1].event.type_ = "Normal"
  /\ r.events[1].oref = [kind |-> kind, namespace |-> key[1], name |-> key[2]]

C31_CleanupOnlyPublishes ==
  [][ /\ \A d \in DnsObjs :
           CleanupRuns(drec[d]) /\ drec'[d] # drec[d] =>
             /\ UNCHANGED <<dnsCalls, cfCalls, dstatus, zstatus, dmeta, zmeta, dspec>>
             /\ OnlyDeleteRequested(drec'[d], "DNSRecord", d)
      /\ \A z \in ZoneKeys :
           CleanupRuns(rec[z]) /\ rec'[z] # rec[z] =>
             /\ UNCHANGED <<dnsCalls, cfCalls, dstatus, zstatus, dmeta, zmeta, dspec>>
             /\ OnlyDeleteRequested(rec'[z], "Zone", z)
      \* and no other step of a reconcile publishes an event
      /\ \A d \in DnsObjs :
           ~CleanupRuns(drec[d]) /\ drec'[d].pc # "idle" /\ ~DnsStarts(d) =>
             drec'[d].events = drec[d].events
    ]_vars

\* A DNSRecord and a Zone whose cleanup has published its event, after an
\* Apply of the same object had created its Cloudflare record.
C31_Witness ==
  /\ \E d \in DnsObjs :
        /\ drec[d].pc = "remove_finalizer"
        /\ Len(drec[d].events) = 1 /\ drec[d].events[1].ok
        /\ \E c \in dnsCalls : c.rec = d /\ c.ok
  /\ \E z \in ZoneKeys :
        /\ rec[z].pc = "remove_finalizer"
        /\ Len(rec[z].events) = 1 /\ rec[z].events[1].ok

\* C32: a failed API request of the finalizer protocol itself (the patch
\* that adds or removes the finalizer) is reported as AddFinalizer or
\* RemoveFinalizer, which no failure of Apply or Cleanup is reported as; no
\* status is written when it fails nor when error_policy handles it; and
\* error_policy answers it with the requeue it answers every failure with.
FinalizerPatchErrors == {"AddFinalizer", "RemoveFinalizer"}
PatchFails(r, r2) == r.pc \in {"add_finalizer", "remove_finalizer"} /\ r2.pc = "failed"
LogicFails(r, r2) == r.pc \in {"apply", "patch", "cleanup"} /\ r2.pc = "failed"
PolicyAnswers(r, r2) == r.pc = "failed" /\ r2.pc = "done"

C32_FinalizerFailureKept ==
  [][ /\ \A d \in DnsObjs :
           /\ PatchFails(drec[d], drec'[d]) =>
                /\ drec'[d].error.err \in FinalizerPatchErrors
                /\ UNCHANGED <<dstatus, zstatus>>
           /\ LogicFails(drec[d], drec'[d]) =>
                drec'[d].error.err \notin FinalizerPatchErrors
           /\ PolicyAnswers(drec[d], drec'[d]) =>
                /\ drec'[d].action = Requeue(300)
                /\ drec'[d].error = drec[d].error
                /\ UNCHANGED <<dstatus, zstatus>>
      /\ \A z \in ZoneKeys :
           /\ PatchFails(rec[z], rec'[z]) =>
                /\ rec'[z].err \in FinalizerPatchErrors
                /\ UNCHANGED <<dstatus, zstatus>>
           /\ LogicFails(rec[z], rec'[z]) =>
                rec'[z].err \notin FinalizerPatchErrors
           /\ PolicyAnswers(rec[z], rec'[z]) =>
                /\ rec'[z].action = Requeue(300)
                /\ rec'[z].err = rec[z].err
                /\ UNCHANGED <<dstatus, zstatus>>
    ]_vars

\* A DNSRecord whose finalizer could not be removed: requeued, its status
\* of the earlier Apply untouched; and a Zone whose finalizer could not be
\* added: requeued, without status.
C32_Witness ==
  /\ \E d \in DnsObjs :
        /\ drec[d].pc = "done" /\ drec[d].error.err = "RemoveFinalizer"
        /\ drec[d].action = Requeue(300)
        /\ DnsReady(d)
  /\ \E z \in ZoneKeys :
        /\ rec[z].pc = "done" /\ rec[z].err = "AddFinalizer"
        /\ rec[z].action = Requeue(300)
        /\ zstatus[z] = None

\* C33: error_policy increments the failures counter exactly once for each
\* failed reconcile, under the labels (object name, lower-cased {:?} of the
\* error) -- for an illegal document reached through Apply the error label
\* is finalizererror(applyfailed(illegaldocument)) -- and a reconcile that
\* succeeds increments nothing.
IllegalLabel ==
  <<"f", "i", "n", "a", "l", "i", "z", "e", "r", "e", "r", "r", "o", "r", "(", "a", "p", "p", "l", "y", "f", "a", "i", "l", "e", "d", "(", "i", "l", "l", "e", "g", "a", "l", "d", "o", "c", "u", "m", "e", "n", "t", ")", ")">>
UnsupportedLabel ==
  <<"f", "i", "n", "a", "l", "i", "z", "e", "r", "e", "r", "r", "o", "r", "(", "a", "p", "p", "l", "y", "f", "a", "i", "l", "e", "d", "(", "u", "n", "s", "u", "p", "p", "o", "r", "t", "e", "d", "r", "e", "c", "o", "r", "d", "t", "y", "p", "e", "(", "\"", "s", "r", "v", "\"", ")", ")", ")">>
AddFinalizerLabel ==
  <<"f", "i", "n", "a", "l", "i", "z", "e", "r", "e", "r", "r", "o", "r", "(", "a", "d", "d", "f", "i", "n", "a", "l", "i", "z", "e", "r", "(", "a", "p", "i", "(", "e", "r", "r", "o", "r", "r", "e", "s", "p", "o", "n", "s", "e", ")", ")", ")">>
NoCapital(s) == \A i \in 1..Len(s) : \A j \in 1..26 : s[i] # UpperCase[j]
Handled(d) == drec[d].pc = "failed" /\ drec'[d].pc = "done"
Succeeds(d) == drec[d].pc \notin {"failed", "done", "idle"} /\ drec'[d].pc = "done"

CallAnswered(d) == drec'[d].created # drec[d].created /\ drec'[d].created.ok

C34_ReadyCarriesCreatedId ==
  [][ \A d \in DnsObjs :
        \* the response kept by the reconcile is the one of its own call
        /\ CallAnswered(d) =>
             /\ drec[d].pc = "apply" /\ drec[d].created = NoResult
             /\ drec'[d].created.val[1] \in RecordIds
             /\ \E q \in dnsCalls' : q.rec = d /\ q.ok /\ q.name = dspec[d].name
        \* the only status written is ready=true with the id of that response
        /\ DnsStatusWritten(d) =>
             /\ drec[d].pc = "patch" /\ drec[d].event = "apply"
             /\ drec[d].created.ok
             /\ dstatus'[d] = Some(DNSRecordStatus(TRUE, Some(drec[d].created.val[1])))
             /\ \E q \in dnsCalls : q.rec = d /\ q.ok
        /\ (dstatus'[d] # None /\ Unwrap(dstatus'[d]).ready) =>
             /\ Unwrap(dstatus'[d]).record_id \in { Some(i) : i \in RecordIds }
             /\ \E q \in dnsCalls' : q.rec = d /\ q.ok
    ]_vars

\* A DNSRecord whose status is ready with the id Cloudflare returned, next
\* to one whose create call failed and left it without status.
C34_Witness ==
  \E d \in DnsObjs :
    /\ drec[d].pc = "done" /\ drec[d].created = Ok(<<"rid2">>)
    /\ dstatus[d] = Some(DNSRecordStatus(TRUE, Some("rid2")))
    /\ \E q \in dnsCalls : q.rec = d /\ ~q.ok

\* C35 as stated: no Apply logic runs for an object that has a deletion
\* timestamp -- no step of Apply, hence no create call and no status patch,
\* is taken for a DNSRecord or a Zone that is being deleted.
ZoneApplyActs(z) == rec[z].pc \in {"apply", "patch"} /\ rec'[z] # rec[z]
DnsPatchActs(d) == drec[d].pc = "patch" /\ drec'[d] # drec[d]

C35_NoApplyOfDeletingObject ==
  [][ /\ \A d \in DnsObjs :
           dmeta[d].deleting => ~DnsApplyActs(d) /\ ~DnsPatchActs(d) /\ ~DnsStatusWritten(d)
      /\ \A z \in ZoneKeys :
           zmeta[z].deleting => ~ZoneApplyActs(z)
    ]_vars

\* C35, amended: the branch is decided once per reconcile, from the
\* deletion timestamp and finalizers of the object version the reconcile
\* was dispatched on. A reconcile dispatched on a version with a deletion
\* timestamp runs Cleanup (finalizer present) or nothing (finalizer
\* absent) and never a step of Apply: no create call, no status patch; a
\* reconcile dispatched on a version without one never runs Cleanup.
MetaCombos == [exists : {TRUE}, finalizer : BOOLEAN, deleting : BOOLEAN]
CallsFor(d) == { q \in dnsCalls : q.rec = d }
ZoneCallsFor(z) == { q \in cfCalls : q.zone = z }
ZoneStarts(z) == rec[z].pc \in {"idle", "done"} /\ rec'[z] # rec[z]
CleanupBranch == {"cleanup", "remove_finalizer"}
ApplyBranch == {"apply", "patch"}

C35_BranchByDispatchedVersion ==
  [][ /\ \A m \in MetaCombos :
           /\ finalizer_state(m) = "apply" <=> (m.finalizer /\ ~m.deleting)
           /\ finalizer_state(m) = "cleanup" <=> (m.finalizer /\ m.deleting)
           /\ (m.deleting /\ ~m.finalizer) => finalizer_state(m) = "done"
      /\ \A d \in DnsObjs :
           /\ DnsStarts(d) =>
                /\ drec'[d].event = drec'[d].pc
                /\ dmeta[d].deleting => drec'[d].pc \in {"cleanup", "done"}
                /\ ~dmeta[d].deleting => drec'[d].pc \in {"apply", "add_finalizer"}
           /\ (~DnsStarts(d) /\ drec[d].event # "apply") =>
                /\ CallsFor(d)' = CallsFor(d)
                /\ ~DnsStatusWritten(d)
                /\ drec'[d].pc \notin ApplyBranch
           /\ (~DnsStarts(d) /\ drec[d].event # "cleanup") =>
                /\ drec'[d].events = drec[d].events
                /\ drec'[d].pc \notin CleanupBranch
      /\ \A z \in ZoneKeys :
           /\ ZoneStarts(z) =>
                /\ zmeta[z].deleting => rec'[z].pc \in {"cleanup", "done"}
                /\ ~zmeta[z].deleting => rec'[z].pc \in {"apply", "add_finalizer"}
           /\ (~ZoneStarts(z) /\ rec[z].pc \notin ApplyBranch) =>
                /\ ZoneCallsFor(z)' = ZoneCallsFor(z)
                /\ zstatus'[z] \in {zstatus[z], None}
                /\ rec'[z].pc \notin ApplyBranch
           /\ (~ZoneStarts(z) /\ rec[z].pc \notin CleanupBranch) =>
                /\ rec'[z].events = rec[z].events
                /\ rec'[z].pc \notin CleanupBranch
    ]_vars

\* A DNSRecord and a Zone that were applied, then deleted, and whose next
\* reconcile ran Cleanup.
C35_Witness ==
  /\ \E d \in DnsObjs :
        /\ dmeta[d].deleting /\ drec[d].event = "cleanup" /\ drec[d].pc = "remove_finalizer"
        /\ DnsReady(d)
  /\ \E z \in ZoneKeys :
        /\ zmeta[z].deleting /\ rec[z].pc = "remove_finalizer"
        /\ zstatus[z] # None

\* C36: the cache never evicts or replaces: in every step every entry of
\* every cache stays as it is (so the cached tokens only grow and a token
\* keeps its client instance), a token has one entry, and each entry's key
\* is the token its client was constructed with.
Tokens(entries) == { e.token : e \in entries }

C36_CacheOnlyGrows ==
  [][ \A k \in Kinds :
        /\ cache[k] \subseteq cache'[k]
        /\ Tokens(cache[k]) \subseteq Tokens(cache'[k])
        /\ \A e \in cache[k] : cache_get(k, e.token)' = {e.client}
        /\ \A e1, e2 \in cache'[k] : e1.token = e2.token => e1 = e2
        /\ \A e \in cache'[k] : e.client \in clients' /\ e.client.token = e.token
    ]_vars

\* A cache that holds the clients of two tokens, the first of them still
\* served after the second was inserted.
C36_Witness ==
  \E k \in Kinds :
    /\ Cardinality(cache[k]) = 2
    /\ last.hit /\ last.kind = k /\ last.result.ok
    /\ \E e \in cache[k] : e.token = last.token /\ e.client.n = 0
    /\ call = [c \in Callers |-> IdleCall]

\* C37: a get_client call whose credential resolution fails (secret, key,
\* encoding or referenced object) does not touch the cache: the step in
\* which it fails changes no cache, takes no mutex, constructs no client and
\* returns no handle; and a call whose own secret reference cannot be
\* fetched never gets as far as the mutex.
ResolutionErrors ==
  {"SecretNotFound", "SecretKeyMissing", "TokenEncoding", "ZoneNotFound", "AccountNotFound"}
Unfetchable(ns, ref) ==
  \/ StoredBytes(ns, ref) = None
  \/ Unwrap(StoredBytes(ns, ref)) \in IllFormed

C37_FailedResolutionLeavesCache ==
  [][ /\ last'.result.err \in ResolutionErrors =>
           /\ UNCHANGED <<cache, lock, clients, returned>>
           /\ \A c \in Callers :
                call'[c].pc \in {"idle", "resolve"} \/ call'[c] = call[c]
      /\ \A c \in Callers :
           (call[c].pc = "idle" /\ call'[c].pc = "lock") =>
              LET f == SpecSecretRef(call'[c].kind, call'[c].ns, call'[c].obj)
              IN  f # None => ~Unfetchable(call'[c].ns, Unwrap(f))
    ]_vars

\* A call just failed to resolve its token while its cache holds a client
\* and another call, holding the mutex, is about to insert a second one.
C37_Witness ==
  /\ last.result.err \in {"SecretKeyMissing", "TokenEncoding", "SecretNotFound"}
  /\ cache[last.kind] # {}
  /\ \E c \in Callers : call[c].pc = "insert" /\ call[c].kind = last.kind /\ lock[last.kind] = c

\* C38: get_client returns a client bound to the token its own call
\* resolved: a token resolved from a secret reference is the value stored
\* at the time of the fetch, and the handle handed back is the client of
\* that token, never a cached client of another (older) token.
LevelSecretRef(c) ==
  IF call[c].pc = "idle"
  THEN ResourceRefs(call'[c].kind, call'[c].ns, call'[c].obj).secret_ref
  ELSE call[c].cur.secret_ref

C38_ClientOfResolvedToken ==
  [][ /\ \A c \in Callers :
           (TokenResolved(c) /\ LevelSecretRef(c) # None) =>
              StoredBytes(call'[c].ns, Unwrap(LevelSecretRef(c)))
                = Some(Utf8Encode(call'[c].token))
      /\ last'.result.ok =>
           LET client == last'.result.val[1]
           IN  /\ client.kind = last'.kind /\ client.token = last'.token
               /\ \A c \in Callers :
                    (call[c].pc # "idle" /\ call'[c].pc = "idle") =>
                       last'.token = call[c].token
               /\ \A e \in cache[last'.kind] :
                    e.token # last'.token => e.client # client
    ]_vars

\* The Zone z2 got the client of the old token; its secret was rewritten
\* and the next call for z2 returned a newly built client of the new token
\* while the old one is still cached.
C38_Witness ==
  /\ last.result.ok /\ ~last.hit
  /\ <<last.kind, last.ns, last.obj>> = <<"Zone", "ns1", "z2">>
  /\ last.token = <<85>>
  /\ secrets[<<"ns1", "s1">>] = Some(SecretWith("token", <<85>>))
  /\ \E e \in cache["Zone"] : e.token = <<84>> /\ e.client # last.result.val[1]
  /\ \E h \in returned : h.kind = "Zone" /\ h.token = <<84>>

\* C39: the cache mutex causes no deadlock and no starvation: it is held
\* only by a call inside the lookup-construct-insert section, a call that
\* has returned holds no mutex, and under fair scheduling every get_client
\* call in flight eventually returns.
HeldInsideSection ==
  \A k \in Kinds :
    lock[k] # 0 => call[lock[k]].pc = "insert" /\ call[lock[k]].kind = k

C39_EveryCallReturns ==
  /\ []HeldInsideSection
  /\ \A c \in Callers : (call[c].pc # "idle") ~> (call[c].pc = "idle")

\* All calls were started; one holds the mutex between construction and
\* insert while another, with a different token, waits for the same mutex
\* after an earlier call returned a handle.
C39_Witness ==
  \E c, d \in Callers :
    /\ c # d /\ ncalls = MaxCalls /\ returned # {}
    /\ call[c].pc = "insert" /\ lock[call[c].kind] = c
    /\ call[d].pc = "lock" /\ call[d].kind = call[c].kind
    /\ call[d].token # call[c].token

TypeOK == \A c \in Callers : call[c].pc \in {"idle", "resolve", "lock", "insert"}

====
